---- MODULE Spec2Model ----
(***************************************************************************)
(* A model of the Feedly MCP server: twelve tool handlers (server.py),     *)
(* the input schemas that guard them (models.py) and the transport client  *)
(* every handler calls exactly once (client.py).                           *)
(*                                                                         *)
(* Text is modelled by TLA+ strings (Len, \o and SubSeq act on them as     *)
(* Python's len, + and slicing do); JSON documents by tagged records; the  *)
(* JSON encoder and decoder by operators that build and scan the text.     *)
(***************************************************************************)
EXTENDS Integers, Sequences, FiniteSets, TLC

(***************************************************************************)
(* Bounds of the model.                                                    *)
(***************************************************************************)
\* Number of tool invocations the hosting runtime runs concurrently.
MaxInvocations == 2
\* Width of the window the string scanners advance by.
ScanWindow == 2048

(***************************************************************************)
(* The state: the process environment, and for every invocation the hosting *)
(* runtime has started, where its handler stands and what it holds.        *)
(***************************************************************************)
VARIABLES
    env_token,  \* os.environ.get("FEEDLY_ACCESS_TOKEN"): None, or Some(text)
    tz_offset,  \* the process's local time zone, minutes east of UTC
    pc,         \* per invocation: "idle", "awaiting", "received" or "done"
    call,       \* per invocation: the tool named and the raw arguments given
    validated,  \* per invocation: the validated input the handler was handed
    clients,    \* per invocation: the FeedlyClient get_client() built
    sent,       \* per invocation: the outbound requests issued, in order
    reply,      \* per invocation: what the upstream answered to its request
    session,    \* per HTTP session: the answer it holds for its awaiting caller
    received,   \* per invocation: what its one client call ended in
    outcome,    \* per invocation: the string returned, or the exception raised
    fn,         \* the helper function applied on its own
    arg,        \* its argument
    ret         \* its result

vars == <<env_token, tz_offset, pc, call, validated, clients, sent, reply, session,
          received, outcome, fn, arg, ret>>

(***************************************************************************)
(* Text helpers.                                                           *)
(***************************************************************************)
\* The value v under a local name, for the expression K that uses it.
With(v, K(_)) == K(v)

Ch(s, i) == SubSeq(s, i, i)

Min(S) == CHOOSE x \in S : \A y \in S : x <= y

Max(S) == CHOOSE x \in S : \A y \in S : x >= y

StartsWith(s, p) == Len(s) >= Len(p) /\ SubSeq(s, 1, Len(p)) = p

\* p occurs in s (Python's p in s).
Contains(s, p) ==
    \E i \in 1..(Len(s) - Len(p) + 1) : SubSeq(s, i, i + Len(p) - 1) = p

SingleLine(s) == ~Contains(s, "\n") /\ ~Contains(s, "\r")

\* The grave accent of the markdown templates.  A TLA+ string cannot hold
\* that character, so the model writes an apostrophe in its place.
Backtick == "'"

\* s repeated n times (Python's s * n), by doubling.
RECURSIVE Rep(_, _)
Rep(s, n) ==
    IF n <= 0 THEN ""
    ELSE IF n % 2 = 0
         THEN With(Rep(s, n \div 2), LAMBDA h : h \o h)
         ELSE s \o Rep(s, n - 1)

\* sep.join(parts)
RECURSIVE Join(_, _)
Join(sep, parts) ==
    IF Len(parts) = 0 THEN ""
    ELSE IF Len(parts) = 1 THEN parts[1]
         ELSE parts[1] \o sep \o Join(sep, Tail(parts))

\* Python's s[:n] for n >= 0.
Prefix(s, n) == SubSeq(s, 1, IF n < Len(s) THEN n ELSE Len(s))

\* Python's s[n:] for n >= 0.
Suffix(s, n) == SubSeq(s, n + 1, Len(s))

\* str.strip() over the whitespace the model's inputs use.
RECURSIVE Strip(_)
Strip(s) ==
    IF Len(s) = 0 THEN s
    ELSE IF Ch(s, 1) \in {" ", "\t", "\n", "\r"} THEN Strip(Suffix(s, 1))
    ELSE IF Ch(s, Len(s)) \in {" ", "\t", "\n", "\r"} THEN Strip(Prefix(s, Len(s) - 1))
    ELSE s

(***************************************************************************)
(* JSON documents, as Python holds them after json.loads: None, bool, int, *)
(* str, list, and dict (a sequence of <<key, value>> pairs, in insertion   *)
(* order).                                                                 *)
(***************************************************************************)
JNull == [t |-> "null"]

JBool(b) == [t |-> "bool", b |-> b]

\* A Python int: its value when it has at most nine digits, and its sign and
\* decimal digits when it has more (epoch milliseconds have thirteen).
JInt(n) == [t |-> "int", n |-> n]

JBig(neg, digits) == [t |-> "bigint", neg |-> neg, digits |-> digits]

BigText(v) == (IF v.neg THEN "-" ELSE "") \o v.digits

JStr(s) == [t |-> "str", s |-> s]

JList(xs) == [t |-> "list", xs |-> xs]

JDict(kv) == [t |-> "dict", kv |-> kv]

\* key in d
HasKey(d, k) == \E i \in 1..Len(d.kv) : d.kv[i][1] = k

\* d[key], for a key d has
Item(d, k) == d.kv[Max({i \in 1..Len(d.kv) : d.kv[i][1] = k})][2]

\* d.get(key, default)
Get(d, k, default) == IF HasKey(d, k) THEN Item(d, k) ELSE default

\* bool(v)
Truthy(v) ==
    CASE v.t = "null" -> FALSE
      [] v.t = "bool" -> v.b
      [] v.t = "int"  -> v.n # 0
      [] v.t = "bigint" -> TRUE
      [] v.t = "str"  -> Len(v.s) > 0
      [] v.t = "list" -> Len(v.xs) > 0
      [] v.t = "dict" -> Len(v.kv) > 0

\* type(v).__name__
TypeName(v) ==
    CASE v.t = "null" -> "NoneType"
      [] v.t = "bool" -> "bool"
      [] v.t = "int"  -> "int"
      [] v.t = "bigint" -> "int"
      [] v.t = "str"  -> "str"
      [] v.t = "list" -> "list"
      [] v.t = "dict" -> "dict"

\* str(v), as an f-string renders a scalar.
PyStr(v) ==
    CASE v.t = "null" -> "None"
      [] v.t = "bool" -> IF v.b THEN "True" ELSE "False"
      [] v.t = "int"  -> ToString(v.n)
      [] v.t = "bigint" -> BigText(v)
      [] v.t = "str"  -> v.s

(***************************************************************************)
(* json.dumps(value, indent=2).                                            *)
(***************************************************************************)
EscapedChars == {"\"", "\\", "\n", "\r", "\t"}

EscapeOf(c) ==
    CASE c = "\"" -> "\\\""
      [] c = "\\" -> "\\\\"
      [] c = "\n" -> "\\n"
      [] c = "\r" -> "\\r"
      [] c = "\t" -> "\\t"

\* The last position of the window that starts at p.
WindowEnd(s, p) == IF p + ScanWindow - 1 < Len(s) THEN p + ScanWindow - 1 ELSE Len(s)

\* The first position in p..hi whose character is one of chars, or 0.
FirstIn(s, p, hi, chars) ==
    With({i \in p..hi : Ch(s, i) \in chars},
         LAMBDA hits : IF hits = {} THEN 0 ELSE Min(hits))

\* The body of a JSON string literal for s: the characters that need an
\* escape are replaced, window by window.
RECURSIVE EscapeFrom(_, _)
EscapeFrom(s, p) ==
    IF p > Len(s) THEN ""
    ELSE With(FirstIn(s, p, WindowEnd(s, p), EscapedChars), LAMBDA i :
           IF i = 0
           THEN SubSeq(s, p, WindowEnd(s, p)) \o EscapeFrom(s, WindowEnd(s, p) + 1)
           ELSE SubSeq(s, p, i - 1) \o EscapeOf(Ch(s, i)) \o EscapeFrom(s, i + 1))

JsonString(s) == "\"" \o EscapeFrom(s, 1) \o "\""

Spaces(n) == Rep(" ", n)

RECURSIVE Dumps(_, _)
Dumps(v, ind) ==
    CASE v.t = "null" -> "null"
      [] v.t = "bool" -> IF v.b THEN "true" ELSE "false"
      [] v.t = "int"  -> ToString(v.n)
      [] v.t = "bigint" -> BigText(v)
      [] v.t = "str"  -> JsonString(v.s)
      [] v.t = "list" ->
           IF Len(v.xs) = 0 THEN "[]"
           ELSE "[\n"
                \o Join(",\n", [i \in 1..Len(v.xs) |->
                                  Spaces(ind + 2) \o Dumps(v.xs[i], ind + 2)])
                \o "\n" \o Spaces(ind) \o "]"
      [] v.t = "dict" ->
           IF Len(v.kv) = 0 THEN "{}"
           ELSE "{\n"
                \o Join(",\n", [i \in 1..Len(v.kv) |->
                                  Spaces(ind + 2) \o JsonString(v.kv[i][1]) \o ": "
                                  \o Dumps(v.kv[i][2], ind + 2)])
                \o "\n" \o Spaces(ind) \o "}"

json_dumps(v) == Dumps(v, 0)

(***************************************************************************)
(* json.loads(text) / Response.json(): a recursive-descent decoder over    *)
(* positions of the text.  A decode step is [ok, v, p]: the value read and *)
(* the position after it, or ok = FALSE where Python raises                *)
(* JSONDecodeError.  The documents of the model hold no floats and no      *)
(* \u, \b or \f escapes; the decoder refuses them.                         *)
(***************************************************************************)
Fail == [ok |-> FALSE]

Step(v, p) == [ok |-> TRUE, v |-> v, p |-> p]

JsonWhitespace == {" ", "\t", "\n", "\r"}

Digits == {"0", "1", "2", "3", "4", "5", "6", "7", "8", "9"}

DigitValue(c) ==
    CASE c = "0" -> 0 [] c = "1" -> 1 [] c = "2" -> 2 [] c = "3" -> 3
      [] c = "4" -> 4 [] c = "5" -> 5 [] c = "6" -> 6 [] c = "7" -> 7
      [] c = "8" -> 8 [] c = "9" -> 9

RECURSIVE SkipWs(_, _)
SkipWs(s, p) ==
    IF p <= Len(s) /\ Ch(s, p) \in JsonWhitespace THEN SkipWs(s, p + 1) ELSE p

\* Position of the quote closing the string literal whose body starts at p,
\* or 0 when the text ends first.
RECURSIVE StringEnd(_, _)
StringEnd(s, p) ==
    IF p > Len(s) THEN 0
    ELSE With(FirstIn(s, p, WindowEnd(s, p), {"\"", "\\"}), LAMBDA i :
           IF i = 0 THEN StringEnd(s, WindowEnd(s, p) + 1)
           ELSE IF Ch(s, i) = "\"" THEN i
           ELSE StringEnd(s, i + 2))

UnescapeOf(c) ==
    CASE c = "\"" -> "\""
      [] c = "\\" -> "\\"
      [] c = "/"  -> "/"
      [] c = "n"  -> "\n"
      [] c = "r"  -> "\r"
      [] c = "t"  -> "\t"

\* The text a string-literal body stands for; the body holds no bad escape.
RECURSIVE UnescapeFrom(_, _)
UnescapeFrom(s, p) ==
    IF p > Len(s) THEN ""
    ELSE With(FirstIn(s, p, WindowEnd(s, p), {"\\"}), LAMBDA i :
           IF i = 0
           THEN SubSeq(s, p, WindowEnd(s, p)) \o UnescapeFrom(s, WindowEnd(s, p) + 1)
           ELSE SubSeq(s, p, i - 1) \o UnescapeOf(Ch(s, i + 1))
                \o UnescapeFrom(s, i + 2))

\* Every backslash of the body starts one of the escapes the decoder knows.
RECURSIVE EscapesOk(_, _)
EscapesOk(s, p) ==
    IF p > Len(s) THEN TRUE
    ELSE With(FirstIn(s, p, WindowEnd(s, p), {"\\"}), LAMBDA i :
           IF i = 0 THEN EscapesOk(s, WindowEnd(s, p) + 1)
           ELSE /\ i < Len(s)
                /\ Ch(s, i + 1) \in {"\"", "\\", "/", "n", "r", "t"}
                /\ EscapesOk(s, i + 2))

\* p is at the opening quote.
ParseString(s, p) ==
    With(StringEnd(s, p + 1), LAMBDA e :
      IF e = 0 THEN Fail
      ELSE With(SubSeq(s, p + 1, e - 1), LAMBDA body :
             IF \E c \in {"\n", "\r", "\t"} : Contains(body, c) THEN Fail
             ELSE IF ~EscapesOk(body, 1) THEN Fail
             ELSE Step(JStr(UnescapeFrom(body, 1)), e + 1)))

RECURSIVE DigitsEnd(_, _)
DigitsEnd(s, p) ==
    IF p <= Len(s) /\ Ch(s, p) \in Digits THEN DigitsEnd(s, p + 1) ELSE p

RECURSIVE DigitsValue(_, _, _)
DigitsValue(s, p, e) ==
    IF e < p THEN 0 ELSE 10 * DigitsValue(s, p, e - 1) + DigitValue(Ch(s, e))

\* p is at "-" or at a digit.
ParseNumber(s, p) ==
    With(Ch(s, p) = "-", LAMBDA neg :
    With(IF neg THEN p + 1 ELSE p, LAMBDA d :
    With(DigitsEnd(s, d), LAMBDA e :
      IF e = d THEN Fail
      ELSE IF Ch(s, d) = "0" /\ e > d + 1 THEN Fail
      ELSE IF e <= Len(s) /\ Ch(s, e) \in {".", "e", "E"} THEN Fail
      ELSE IF e - d > 9 THEN Step(JBig(neg, SubSeq(s, d, e - 1)), e)
      ELSE IF neg THEN Step(JInt(0 - DigitsValue(s, d, e - 1)), e)
      ELSE Step(JInt(DigitsValue(s, d, e - 1)), e))))

ParseWord(s, p, word, v) ==
    IF p + Len(word) - 1 <= Len(s) /\ SubSeq(s, p, p + Len(word) - 1) = word
    THEN Step(v, p + Len(word))
    ELSE Fail

RECURSIVE ParseValue(_, _)
RECURSIVE ParseElements(_, _, _)
RECURSIVE ParseMembers(_, _, _)

\* The elements of an array after "[" or ","; acc holds those read so far.
ParseElements(s, p, acc) ==
    With(ParseValue(s, p), LAMBDA r :
      IF ~r.ok THEN Fail
      ELSE With(SkipWs(s, r.p), LAMBDA q :
             IF q > Len(s) THEN Fail
             ELSE IF Ch(s, q) = "]" THEN Step(JList(Append(acc, r.v)), q + 1)
             ELSE IF Ch(s, q) = "," THEN ParseElements(s, q + 1, Append(acc, r.v))
             ELSE Fail))

\* The members of an object after "{" or ","; acc holds those read so far.
ParseMembers(s, p, acc) ==
    With(SkipWs(s, p), LAMBDA k :
      IF k > Len(s) \/ Ch(s, k) # "\"" THEN Fail
      ELSE With(ParseString(s, k), LAMBDA key :
        IF ~key.ok THEN Fail
        ELSE With(SkipWs(s, key.p), LAMBDA c :
          IF c > Len(s) \/ Ch(s, c) # ":" THEN Fail
          ELSE With(ParseValue(s, c + 1), LAMBDA r :
            IF ~r.ok THEN Fail
            ELSE With(SkipWs(s, r.p), LAMBDA q :
              IF q > Len(s) THEN Fail
              ELSE IF Ch(s, q) = "}"
                   THEN Step(JDict(Append(acc, <<key.v.s, r.v>>)), q + 1)
              ELSE IF Ch(s, q) = ","
                   THEN ParseMembers(s, q + 1, Append(acc, <<key.v.s, r.v>>))
              ELSE Fail)))))

ParseValue(s, p0) ==
    With(SkipWs(s, p0), LAMBDA p :
      IF p > Len(s) THEN Fail
      ELSE With(Ch(s, p), LAMBDA c :
        IF c = "{"
        THEN With(SkipWs(s, p + 1), LAMBDA q :
               IF q <= Len(s) /\ Ch(s, q) = "}" THEN Step(JDict(<<>>), q + 1)
               ELSE ParseMembers(s, p + 1, <<>>))
        ELSE IF c = "["
        THEN With(SkipWs(s, p + 1), LAMBDA q :
               IF q <= Len(s) /\ Ch(s, q) = "]" THEN Step(JList(<<>>), q + 1)
               ELSE ParseElements(s, p + 1, <<>>))
        ELSE IF c = "\"" THEN ParseString(s, p)
        ELSE IF c = "t" THEN ParseWord(s, p, "true", JBool(TRUE))
        ELSE IF c = "f" THEN ParseWord(s, p, "false", JBool(FALSE))
        ELSE IF c = "n" THEN ParseWord(s, p, "null", JNull)
        ELSE IF c = "-" \/ c \in Digits THEN ParseNumber(s, p)
        ELSE Fail))

\* [ok |-> TRUE, v |-> document] or [ok |-> FALSE] (JSONDecodeError).
json_loads(s) ==
    With(ParseValue(s, 1), LAMBDA r :
      IF ~r.ok THEN Fail
      ELSE IF SkipWs(s, r.p) # Len(s) + 1 THEN Fail
      ELSE [ok |-> TRUE, v |-> r.v])

(***************************************************************************)
(* Python values the model passes around.                                  *)
(***************************************************************************)
\* Optional[T]: None, or a value.
None == <<>>

Some(v) == <<v>>

\* A call that returned v, and a call that raised exception e.
Ok(v) == [ok |-> TRUE, v |-> v]

Raise(e) == [ok |-> FALSE, exc |-> e]

\* An exception object: its class, str(e), and for the HTTP ones the
\* response's status code and text.
Exception(cls, msg) == [cls |-> cls, msg |-> msg, status |-> 0, text |-> ""]

\* The rest K of a computation that needs the value r returned, or the
\* exception r raised.
Then(r, K(_)) == IF r.ok THEN K(r.v) ELSE r

AttributeError(v, attr) ==
    Exception("AttributeError",
              "'" \o TypeName(v) \o "' object has no attribute '" \o attr \o "'")

(***************************************************************************)
(* constants.py                                                            *)
(***************************************************************************)
API_BASE_URL == "https://cloud.feedly.com/v3"

CHARACTER_LIMIT == 25000

USER_AGENT ==
    "Mozilla/5.0 (Windows NT 10.0; Win64; x64) "
    \o "AppleWebKit/537.36 (KHTML, like Gecko) "
    \o "Chrome/120.0.0.0 Safari/537.36"

(***************************************************************************)
(* models.py: the input schemas.  The raw arguments of a call are a record *)
(* holding the fields the caller supplied; a schema answers Ok(params),    *)
(* the validated input with its defaults filled in, or                     *)
(* Raise(ValidationError).                                                 *)
(***************************************************************************)
ResponseFormat == {"markdown", "json"}

ValidationError(model) ==
    Exception("ValidationError", "1 validation error for " \o model)

\* The value of field f, or its default when the caller left it out.
Field(a, f, default) == IF f \in DOMAIN a THEN a[f] ELSE default

GetStreamContentsInput(a) ==
    LET stream_id == Strip(a.stream_id)
        params ==
            [stream_id       |-> stream_id,
             count           |-> Field(a, "count", 20),
             unread_only     |-> Field(a, "unread_only", TRUE),
             continuation    |-> IF "continuation" \in DOMAIN a
                                 THEN Some(Strip(a.continuation)) ELSE None,
             ranked          |-> Field(a, "ranked", "newest"),
             response_format |-> Field(a, "response_format", "markdown")]
    IN  IF /\ DOMAIN a \subseteq {"stream_id", "count", "unread_only", "continuation",
                                   "ranked", "response_format"}
           /\ "stream_id" \in DOMAIN a
           /\ Len(stream_id) >= 1
           /\ params.count >= 1
           /\ params.count <= 100
           /\ params.ranked \in {"newest", "oldest"}
           /\ params.response_format \in ResponseFormat
        THEN Ok(params)
        ELSE Raise(ValidationError("GetStreamContentsInput"))

\* A faulty MarkAsReadInput: the list has no maximum length.
MarkAsReadInput_unbounded(a) ==
    IF /\ DOMAIN a \subseteq {"entry_ids"}
       /\ "entry_ids" \in DOMAIN a
       /\ Len(a.entry_ids) >= 1
    THEN Ok([entry_ids |-> a.entry_ids])
    ELSE Raise(ValidationError("MarkAsReadInput"))

MarkAsReadInput(a) ==
    IF /\ DOMAIN a \subseteq {"entry_ids"}
       /\ "entry_ids" \in DOMAIN a
       /\ Len(a.entry_ids) >= 1
       /\ Len(a.entry_ids) <= 1000
    THEN Ok([entry_ids |-> a.entry_ids])
    ELSE Raise(ValidationError("MarkAsReadInput"))

MarkFeedAsReadInput(a) ==
    IF /\ DOMAIN a \subseteq {"feed_id", "as_of"}
       /\ "feed_id" \in DOMAIN a
       /\ Len(a.feed_id) >= 1
    THEN Ok([feed_id |-> a.feed_id,
             as_of   |-> IF "as_of" \in DOMAIN a THEN Some(a.as_of) ELSE None])
    ELSE Raise(ValidationError("MarkFeedAsReadInput"))

MarkCategoryAsReadInput(a) ==
    IF /\ DOMAIN a \subseteq {"category_id", "as_of"}
       /\ "category_id" \in DOMAIN a
       /\ Len(a.category_id) >= 1
    THEN Ok([category_id |-> a.category_id,
             as_of       |-> IF "as_of" \in DOMAIN a THEN Some(a.as_of) ELSE None])
    ELSE Raise(ValidationError("MarkCategoryAsReadInput"))

GetEntryInput(a) ==
    LET params == [entry_id        |-> a.entry_id,
                   response_format |-> Field(a, "response_format", "markdown")]
    IN  IF /\ DOMAIN a \subseteq {"entry_id", "response_format"}
           /\ "entry_id" \in DOMAIN a
           /\ Len(a.entry_id) >= 1
           /\ params.response_format \in ResponseFormat
        THEN Ok(params)
        ELSE Raise(ValidationError("GetEntryInput"))

GetEntriesInput(a) ==
    LET params == [entry_ids       |-> a.entry_ids,
                   response_format |-> Field(a, "response_format", "markdown")]
    IN  IF /\ DOMAIN a \subseteq {"entry_ids", "response_format"}
           /\ "entry_ids" \in DOMAIN a
           /\ Len(a.entry_ids) >= 1
           /\ Len(a.entry_ids) <= 1000
           /\ params.response_format \in ResponseFormat
        THEN Ok(params)
        ELSE Raise(ValidationError("GetEntriesInput"))

KeepUnreadInput(a) ==
    IF /\ DOMAIN a \subseteq {"entry_ids"}
       /\ "entry_ids" \in DOMAIN a
       /\ Len(a.entry_ids) >= 1
       /\ Len(a.entry_ids) <= 1000
    THEN Ok([entry_ids |-> a.entry_ids])
    ELSE Raise(ValidationError("KeepUnreadInput"))

SimpleResponseFormatInput(a) ==
    LET params == [response_format |-> Field(a, "response_format", "markdown")]
    IN  IF /\ DOMAIN a \subseteq {"response_format"}
           /\ params.response_format \in ResponseFormat
        THEN Ok(params)
        ELSE Raise(ValidationError("SimpleResponseFormatInput"))

(***************************************************************************)
(* client.py: FeedlyClient.                                                *)
(***************************************************************************)
FeedlyError(message, status_code) ==
    [cls |-> "FeedlyError", msg |-> message, status |-> status_code, text |-> ""]

FeedlyClient(access_token) ==
    [access_token |-> access_token, base_url |-> API_BASE_URL, timeout |-> 30]

\* What the upstream can answer to one request: an HTTP response, or none
\* within the timeout, or no connection at all.
HttpResponse(status_code, text) ==
    [kind |-> "response", status_code |-> status_code, text |-> text]

TimedOut == [kind |-> "timeout", status_code |-> 0, text |-> ""]

ConnectFailed == [kind |-> "connect_error", status_code |-> 0, text |-> ""]

\* The one outbound request _request builds and sends.
request_send(c, method, endpoint, params, json_data) ==
    [method  |-> method,
     url     |-> c.base_url \o endpoint,
     params  |-> params,
     json    |-> json_data,
     timeout |-> c.timeout,
     headers |-> <<<<"Authorization", "Bearer " \o c.access_token>>,
                   <<"Accept", "application/json">>,
                   <<"Content-Type", "application/json">>,
                   <<"User-Agent", USER_AGENT>>>>]

\* A faulty _request: raise_for_status() runs before the status checks, so
\* 401, 403, 404 and 429 end as generic HTTP failures.
request_receive_untyped(resp) ==
    IF resp.kind = "timeout"
    THEN Raise(Exception("TimeoutException", "The read operation timed out"))
    ELSE IF resp.kind = "connect_error"
    THEN Raise(Exception("ConnectError", "All connection attempts failed"))
    ELSE IF ~(resp.status_code >= 200 /\ resp.status_code <= 299)
    THEN Raise([cls    |-> "HTTPStatusError",
                msg    |-> "HTTP error " \o ToString(resp.status_code),
                status |-> resp.status_code,
                text   |-> resp.text])
    ELSE IF resp.status_code = 204
    THEN Ok(JNull)
    ELSE With(json_loads(resp.text), LAMBDA doc :
           IF doc.ok THEN Ok(doc.v)
           ELSE Raise(Exception("JSONDecodeError",
                                "Expecting value: line 1 column 1 (char 0)")))

\* What _request does with the answer: the status checks in their order,
\* then raise_for_status(), then the 204 case, then response.json().
request_receive(resp) ==
    IF resp.kind = "timeout"
    THEN Raise(Exception("TimeoutException", "The read operation timed out"))
    ELSE IF resp.kind = "connect_error"
    THEN Raise(Exception("ConnectError", "All connection attempts failed"))
    ELSE IF resp.status_code = 401
    THEN Raise(FeedlyError("Authentication failed. Check FEEDLY_ACCESS_TOKEN.", 401))
    ELSE IF resp.status_code = 403
    THEN Raise(FeedlyError("Access forbidden. Check your Feedly plan.", 403))
    ELSE IF resp.status_code = 404
    THEN Raise(FeedlyError("Resource not found. Check the ID.", 404))
    ELSE IF resp.status_code = 429
    THEN Raise(FeedlyError("Rate limit exceeded. Wait before retrying.", 429))
    ELSE IF ~(resp.status_code >= 200 /\ resp.status_code <= 299)
    THEN Raise([cls    |-> "HTTPStatusError",
                msg    |-> "HTTP error " \o ToString(resp.status_code),
                status |-> resp.status_code,
                text   |-> resp.text])
    ELSE IF resp.status_code = 204
    THEN Ok(JNull)
    ELSE With(json_loads(resp.text), LAMBDA doc :
           IF doc.ok THEN Ok(doc.v)
           ELSE Raise(Exception("JSONDecodeError",
                                "Expecting value: line 1 column 1 (char 0)")))

\* urllib.parse.quote(s, safe=""): letters, digits and "_.-~" stay, every
\* other character of the model's identifiers becomes its %XX escape.
QuoteChar(c) ==
    CASE c = "/" -> "%2F"
      [] c = ":" -> "%3A"
      [] c = "+" -> "%2B"
      [] c = "=" -> "%3D"
      [] c = " " -> "%20"
      [] c = "?" -> "%3F"
      [] c = "#" -> "%23"
      [] c = "%" -> "%25"
      [] OTHER   -> c

RECURSIVE quote(_)
quote(s) == IF Len(s) = 0 THEN "" ELSE QuoteChar(Ch(s, 1)) \o quote(Suffix(s, 1))

StrList(ids) == JList([i \in 1..Len(ids) |-> JStr(ids[i])])

get_profile(c) == request_send(c, "GET", "/profile", JNull, JNull)

get_subscriptions(c) == request_send(c, "GET", "/subscriptions", JNull, JNull)

get_categories(c) == request_send(c, "GET", "/categories", JNull, JNull)

get_tags(c) == request_send(c, "GET", "/tags", JNull, JNull)

get_unread_counts(c) == request_send(c, "GET", "/markers/counts", JNull, JNull)

get_stream_contents(c, stream_id, count, unread_only, continuation, ranked) ==
    LET base == <<<<"streamId", JStr(stream_id)>>,
                  <<"count", JInt(count)>>,
                  <<"ranked", JStr(ranked)>>>>
        unread == IF unread_only THEN <<<<"unreadOnly", JStr("true")>>>> ELSE <<>>
        cont == IF continuation # None /\ Len(continuation[1]) > 0
                THEN <<<<"continuation", JStr(continuation[1])>>>> ELSE <<>>
    IN  request_send(c, "GET", "/streams/contents", JDict(base \o unread \o cont), JNull)

get_entry(c, entry_id) ==
    request_send(c, "GET", "/entries/" \o quote(entry_id), JNull, JNull)

get_entries(c, entry_ids) ==
    request_send(c, "POST", "/entries/.mget", JNull, StrList(entry_ids))

mark_as_read(c, entry_ids) ==
    request_send(c, "POST", "/markers", JNull,
                 JDict(<<<<"action", JStr("markAsRead")>>,
                         <<"type", JStr("entries")>>,
                         <<"entryIds", StrList(entry_ids)>>>>))

mark_feed_as_read(c, feed_id, as_of) ==
    LET data == <<<<"action", JStr("markAsRead")>>,
                  <<"type", JStr("feeds")>>,
                  <<"feedIds", JList(<<JStr(feed_id)>>)>>>>
        cutoff == IF as_of # None THEN <<<<"asOf", as_of[1]>>>> ELSE <<>>
    IN  request_send(c, "POST", "/markers", JNull, JDict(data \o cutoff))

mark_category_as_read(c, category_id, as_of) ==
    LET data == <<<<"action", JStr("markAsRead")>>,
                  <<"type", JStr("categories")>>,
                  <<"categoryIds", JList(<<JStr(category_id)>>)>>>>
        cutoff == IF as_of # None THEN <<<<"asOf", as_of[1]>>>> ELSE <<>>
    IN  request_send(c, "POST", "/markers", JNull, JDict(data \o cutoff))

keep_unread(c, entry_ids) ==
    request_send(c, "POST", "/markers", JNull,
                 JDict(<<<<"action", JStr("keepUnread")>>,
                         <<"type", JStr("entries")>>,
                         <<"entryIds", StrList(entry_ids)>>>>))

(***************************************************************************)
(* server.py: the helpers.                                                 *)
(***************************************************************************)
TypeError(msg) == Exception("TypeError", msg)

\* A faulty get_client(): only a missing variable counts as no token, an
\* empty one makes a client.
get_client_unless_none(tok) ==
    IF tok = None
    THEN Raise(FeedlyError("FEEDLY_ACCESS_TOKEN environment variable not set", 0))
    ELSE Ok(FeedlyClient(tok[1]))

\* get_client(): the client, or the configuration error.
get_client(tok) ==
    IF tok = None \/ Len(tok[1]) = 0
    THEN Raise(FeedlyError("FEEDLY_ACCESS_TOKEN environment variable not set", 0))
    ELSE Ok(FeedlyClient(tok[1]))

handle_error(e) ==
    IF e.cls = "FeedlyError" THEN "Error: " \o e.msg
    ELSE IF e.cls = "TimeoutException" THEN "Error: Request timed out. Try again."
    ELSE IF e.cls = "HTTPStatusError"
         THEN "Error: HTTP " \o ToString(e.status) \o ": " \o e.text
    ELSE "Error: " \o e.cls \o ": " \o e.msg

TruncationNotice == "\n\n... [Response truncated at 25000 characters]"

\* A faulty cap: the text is cut at the limit itself, so that the notice
\* comes on top of it.
truncate_response_at_limit(content) ==
    IF Len(content) <= CHARACTER_LIMIT THEN content
    ELSE Prefix(content, CHARACTER_LIMIT) \o TruncationNotice

truncate_response(content) ==
    IF Len(content) <= CHARACTER_LIMIT THEN content
    ELSE Prefix(content, CHARACTER_LIMIT - 50) \o TruncationNotice

\* ---- _format_timestamp: epoch milliseconds to local "YYYY-MM-DD HH:MM".
MsPerDay == 86400000

RECURSIVE Pad(_, _)
Pad(s, width) == IF Len(s) >= width THEN s ELSE Pad("0" \o s, width)

\* Long division of a decimal text by d, over its first k digits.
RECURSIVE LongDiv(_, _, _)
LongDiv(digits, k, d) ==
    IF k = 0 THEN [q |-> 0, r |-> 0]
    ELSE With(LongDiv(digits, k - 1, d), LAMBDA prev :
         With(prev.r * 10 + DigitValue(Ch(digits, k)), LAMBDA cur :
           [q |-> prev.q * 10 + cur \div d, r |-> cur % d]))

\* a >= b for decimal texts of one length, from digit i on.
RECURSIVE DecGeq(_, _, _)
DecGeq(a, b, i) ==
    IF i > Len(a) THEN TRUE
    ELSE IF DigitValue(Ch(a, i)) # DigitValue(Ch(b, i))
         THEN DigitValue(Ch(a, i)) > DigitValue(Ch(b, i))
    ELSE DecGeq(a, b, i + 1)

\* The sign and the decimal digits of |v| for an int (or bool) v.
Magnitude(v) ==
    CASE v.t = "bool"   -> [neg |-> FALSE, digits |-> IF v.b THEN "1" ELSE "0"]
      [] v.t = "int"    -> [neg |-> v.n < 0,
                            digits |-> ToString(IF v.n < 0 THEN 0 - v.n ELSE v.n)]
      [] v.t = "bigint" -> [neg |-> v.neg, digits |-> v.digits]

\* timestamp_ms / 1000 lies outside the platform's 64-bit time_t.
TimeTOverflow(digits) ==
    \/ Len(digits) > 22
    \/ Len(digits) = 22 /\ DecGeq(digits, "9223372036854775808000", 1)

\* The civil date of a day number counted from 1970-01-01.
CivilFromDays(days) ==
    With(days + 719468, LAMBDA z :
    With(z \div 146097, LAMBDA era :
    With(z - era * 146097, LAMBDA doe :
    With((doe - doe \div 1460 + doe \div 36524 - doe \div 146096) \div 365, LAMBDA yoe :
    With(doe - (365 * yoe + yoe \div 4 - yoe \div 100), LAMBDA doy :
    With((5 * doy + 2) \div 153, LAMBDA mp :
    With(IF mp < 10 THEN mp + 3 ELSE mp - 9, LAMBDA m :
      [year  |-> yoe + era * 400 + (IF m <= 2 THEN 1 ELSE 0),
       month |-> m,
       day   |-> doy - (153 * mp + 2) \div 5 + 1])))))))

\* The local day number and minute of the day of an instant given by the
\* sign and digits of its epoch milliseconds (at most fifteen digits).
LocalTime(neg, digits) ==
    With(LongDiv(digits, Len(digits), MsPerDay), LAMBDA dm :
    With(IF ~neg THEN dm.q ELSE IF dm.r > 0 THEN 0 - dm.q - 1 ELSE 0 - dm.q, LAMBDA day :
    With(IF ~neg \/ dm.r = 0 THEN dm.r ELSE MsPerDay - dm.r, LAMBDA msod :
    With(msod \div 60000 + tz_offset, LAMBDA mins :
      [day    |-> day + mins \div 1440,
       minute |-> mins % 1440]))))

format_timestamp(timestamp_ms) ==
    IF timestamp_ms.t = "null" THEN Ok("Unknown")
    ELSE IF timestamp_ms.t \notin {"int", "bigint", "bool"}
    THEN Raise(TypeError("unsupported operand type(s) for /: '"
                         \o TypeName(timestamp_ms) \o "' and 'int'"))
    ELSE With(Magnitude(timestamp_ms), LAMBDA m :
      IF TimeTOverflow(m.digits)
      THEN Raise(Exception("OverflowError",
                           IF Len(m.digits) > 309
                           THEN "integer division result too large for a float"
                           ELSE "timestamp out of range for platform time_t"))
      ELSE IF Len(m.digits) > 15 THEN Ok("Unknown")
      ELSE With(LocalTime(m.neg, m.digits), LAMBDA lt :
           With(CivilFromDays(lt.day), LAMBDA dt :
             IF dt.year < 1 \/ dt.year > 9999 THEN Ok("Unknown")
             ELSE Ok(Pad(ToString(dt.year), 4) \o "-"
                     \o Pad(ToString(dt.month), 2) \o "-"
                     \o Pad(ToString(dt.day), 2) \o " "
                     \o Pad(ToString(lt.minute \div 60), 2) \o ":"
                     \o Pad(ToString(lt.minute % 60), 2)))))

\* ---- _truncate_text; text is None or a str.
\* A faulty cut: max_length characters are kept and the ellipsis is added
\* to them.
truncate_text_then_ellipsis(text, max_length) ==
    IF text.t = "null" THEN ""
    ELSE IF Len(text.s) <= max_length THEN text.s
    ELSE Prefix(text.s, max_length) \o "..."

truncate_text(text, max_length) ==
    IF text.t = "null" THEN ""
    ELSE IF Len(text.s) <= max_length THEN text.s
    ELSE Prefix(text.s, max_length - 3) \o "..."

\* ---- _get_article_content: the value returned, or the exception raised.
get_article_content(entry) ==
    IF HasKey(entry, "fullContent") THEN Ok(Item(entry, "fullContent"))
    ELSE IF HasKey(entry, "content") /\ Item(entry, "content").t # "dict"
    THEN Raise(AttributeError(Item(entry, "content"), "get"))
    ELSE IF HasKey(entry, "content")
            /\ Truthy(Get(Item(entry, "content"), "content", JNull))
    THEN Ok(Item(Item(entry, "content"), "content"))
    ELSE IF HasKey(entry, "summary") /\ Item(entry, "summary").t # "dict"
    THEN Raise(AttributeError(Item(entry, "summary"), "get"))
    ELSE IF HasKey(entry, "summary")
            /\ Truthy(Get(Item(entry, "summary"), "content", JNull))
    THEN Ok(Item(Item(entry, "summary"), "content"))
    ELSE Ok(JStr(""))

\* v[0]
Subscript0(v) ==
    CASE v.t = "list" -> IF Len(v.xs) = 0
                         THEN Raise(Exception("IndexError", "list index out of range"))
                         ELSE Ok(v.xs[1])
      [] v.t = "str"  -> IF Len(v.s) = 0
                         THEN Raise(Exception("IndexError", "string index out of range"))
                         ELSE Ok(JStr(Ch(v.s, 1)))
      [] v.t = "dict" -> Raise(Exception("KeyError", "0"))
      [] OTHER        -> Raise(TypeError("'" \o TypeName(v)
                                         \o "' object is not subscriptable"))

\* The entry's URL: entry.get("alternate", [{}])[0].get("href",
\* entry.get("canonicalUrl", "")).
entry_url(entry) ==
    Then(Subscript0(Get(entry, "alternate", JList(<<JDict(<<>>)>>))), LAMBDA first :
      IF first.t # "dict" THEN Raise(AttributeError(first, "get"))
      ELSE Ok(Get(first, "href", Get(entry, "canonicalUrl", JStr("")))))

format_entry_markdown(entry, include_content) ==
    IF entry.t # "dict" THEN Raise(AttributeError(entry, "get"))
    ELSE
    Then(format_timestamp(Get(entry, "published", JNull)), LAMBDA published :
    Then(entry_url(entry), LAMBDA url :
    Then(get_article_content(entry), LAMBDA content :
    With(truncate_text(content, 300), LAMBDA summary :
      Ok(Join("\n",
           <<"### " \o PyStr(Get(entry, "title", JStr("Untitled"))),
             "**Author:** " \o PyStr(Get(entry, "author", JStr("Unknown author")))
               \o " | **Published:** " \o published
               \o " | **Unread:** "
               \o (IF Truthy(Get(entry, "unread", JBool(FALSE))) THEN "Yes" ELSE "No"),
             "**ID:** " \o Backtick \o PyStr(Get(entry, "id", JStr(""))) \o Backtick>>
           \o (IF Truthy(url)
               THEN <<"**URL:** [" \o PyStr(url) \o "](" \o PyStr(url) \o ")">>
               ELSE <<>>)
           \o (IF include_content /\ Truthy(content)
               THEN <<"\n**Content:**\n" \o PyStr(content)>>
               ELSE IF Len(summary) > 0
               THEN <<"\n**Summary:** " \o summary>>
               ELSE <<>>)))))))

\* What a for loop over v walks, or the TypeError for a value that cannot
\* be iterated.
Iterate(v) ==
    CASE v.t = "list" -> Ok(v.xs)
      [] v.t = "dict" -> Ok([i \in 1..Len(v.kv) |-> JStr(v.kv[i][1])])
      [] v.t = "str"  -> Ok([i \in 1..Len(v.s) |-> JStr(Ch(v.s, i))])
      [] OTHER        -> Raise(TypeError("'" \o TypeName(v) \o "' object is not iterable"))

\* len(v)
PyLen(v) ==
    CASE v.t = "list" -> Ok(Len(v.xs))
      [] v.t = "dict" -> Ok(Len(v.kv))
      [] v.t = "str"  -> Ok(Len(v.s))
      [] OTHER        -> Raise(TypeError("object of type '" \o TypeName(v)
                                         \o "' has no len()"))

\* The results of a comprehension: all of them, or the first exception.
FirstRaised(rs) == rs[Min({i \in 1..Len(rs) : ~rs[i].ok})]

Values(rs) == [i \in 1..Len(rs) |-> rs[i].v]

AllOk(rs) == \A i \in 1..Len(rs) : rs[i].ok

\* The values a comprehension collected, or the first exception raised.
Gather(rs) == IF AllOk(rs) THEN Ok(Values(rs)) ELSE FirstRaised(rs)

format_entries_markdown(entries, include_content) ==
    IF ~Truthy(entries) THEN Ok("No articles found.")
    ELSE Then(Iterate(entries), LAMBDA xs :
         Then(Gather([i \in 1..Len(xs) |->
                        format_entry_markdown(xs[i], include_content)]), LAMBDA blocks :
           Ok(Join("\n\n---\n\n", blocks))))

format_stream_contents(data, response_format) ==
    IF data.t # "dict" THEN Raise(AttributeError(data, "get"))
    ELSE
    With(Get(data, "items", JList(<<>>)), LAMBDA items :
    With(Get(data, "continuation", JNull), LAMBDA continuation :
      IF response_format = "json"
      THEN Then(PyLen(items), LAMBDA count :
             Ok(json_dumps(JDict(<<<<"items", items>>, <<"count", JInt(count)>>>>
                                 \o (IF Truthy(continuation)
                                     THEN <<<<"continuation", continuation>>>>
                                     ELSE <<>>)))))
      ELSE Then(PyLen(items), LAMBDA count :
           Then(format_entries_markdown(items, FALSE), LAMBDA articles :
             Ok(Join("\n",
                  <<"## Articles (" \o ToString(count) \o " found)\n", articles>>
                  \o (IF Truthy(continuation)
                      THEN <<"\n\n---\n**More articles available.** "
                             \o "Use continuation token: "
                             \o Backtick \o PyStr(continuation) \o Backtick>>
                      ELSE <<>>)))))))

format_profile_markdown(profile) ==
    IF profile.t # "dict" THEN Raise(AttributeError(profile, "get"))
    ELSE Ok("## Feedly Profile\n\n"
            \o "**User ID:** " \o Backtick \o PyStr(Get(profile, "id", JStr("Unknown")))
            \o Backtick \o "\n"
            \o "**Email:** " \o PyStr(Get(profile, "email", JStr("Not available"))) \o "\n"
            \o "**Name:** "
            \o PyStr(Get(profile, "fullName",
                         Get(profile, "givenName", JStr("Not available")))) \o "\n"
            \o "**Locale:** " \o PyStr(Get(profile, "locale", JStr("Not available"))) \o "\n"
            \o "**Login:** " \o PyStr(Get(profile, "login", JStr("Not available"))) \o "\n")

\* The flattened lines of a list of line groups.
RECURSIVE Flatten(_)
Flatten(groups) ==
    IF Len(groups) = 0 THEN <<>> ELSE Head(groups) \o Flatten(Tail(groups))

\* [c.get("label", "") for c in sub.get("categories", [])]
category_labels(sub) ==
    Then(Iterate(Get(sub, "categories", JList(<<>>))), LAMBDA cs :
      Gather([i \in 1..Len(cs) |->
                IF cs[i].t # "dict" THEN Raise(AttributeError(cs[i], "get"))
                ELSE Ok(PyStr(Get(cs[i], "label", JStr(""))))]))

\* The lines one subscription adds.
subscription_lines(sub) ==
    IF sub.t # "dict" THEN Raise(AttributeError(sub, "get"))
    ELSE
    With(Get(sub, "website", JStr("")), LAMBDA website :
    Then(category_labels(sub), LAMBDA categories :
      Ok(<<"### " \o PyStr(Get(sub, "title", JStr("Untitled"))),
           "**Feed ID:** " \o Backtick \o PyStr(Get(sub, "id", JStr(""))) \o Backtick>>
         \o (IF Truthy(website)
             THEN <<"**Website:** [" \o PyStr(website) \o "](" \o PyStr(website) \o ")">>
             ELSE <<>>)
         \o <<"**Categories:** "
              \o (IF Len(categories) > 0 THEN Join(", ", categories)
                  ELSE "Uncategorized"),
              "">>)))

format_subscriptions_markdown(subscriptions) ==
    IF ~Truthy(subscriptions) THEN Ok("No subscriptions found.")
    ELSE Then(PyLen(subscriptions), LAMBDA count :
         Then(Iterate(subscriptions), LAMBDA subs :
         Then(Gather([i \in 1..Len(subs) |-> subscription_lines(subs[i])]), LAMBDA each :
           Ok(Join("\n", <<"## Subscriptions (" \o ToString(count) \o " feeds)\n">>
                         \o Flatten(each))))))

\* The lines one category adds.
category_lines(cat) ==
    IF cat.t # "dict" THEN Raise(AttributeError(cat, "get"))
    ELSE Ok(<<"- **" \o PyStr(Get(cat, "label", JStr("Unlabeled"))) \o "**",
              "  - ID: " \o Backtick \o PyStr(Get(cat, "id", JStr(""))) \o Backtick>>)

format_categories_markdown(categories) ==
    IF ~Truthy(categories) THEN Ok("No categories found.")
    ELSE Then(PyLen(categories), LAMBDA count :
         Then(Iterate(categories), LAMBDA cats :
         Then(Gather([i \in 1..Len(cats) |-> category_lines(cats[i])]), LAMBDA each :
           Ok(Join("\n", <<"## Categories (" \o ToString(count) \o " found)\n">>
                         \o Flatten(each))))))

\* s.split(sep)[-1]: what follows the last sep in s, or s when it has none.
RECURSIVE LastPart(_, _)
LastPart(s, sep) ==
    With({i \in 1..(Len(s) - Len(sep) + 1) : SubSeq(s, i, i + Len(sep) - 1) = sep},
         LAMBDA hits :
           IF hits = {} THEN s
           ELSE LastPart(Suffix(s, Min(hits) + Len(sep) - 1), sep))

\* The lines one tag adds; the default label is computed before the lookup.
tag_lines(tag) ==
    IF tag.t # "dict" THEN Raise(AttributeError(tag, "get"))
    ELSE With(Get(tag, "id", JStr("")), LAMBDA id :
           IF id.t # "str" THEN Raise(AttributeError(id, "split"))
           ELSE Ok(<<"- **" \o PyStr(Get(tag, "label", JStr(LastPart(id.s, "/"))))
                     \o "**",
                     "  - ID: " \o Backtick \o PyStr(id) \o Backtick>>))

format_tags_markdown(tags) ==
    IF ~Truthy(tags) THEN Ok("No tags found.")
    ELSE Then(PyLen(tags), LAMBDA count :
         Then(Iterate(tags), LAMBDA ts :
         Then(Gather([i \in 1..Len(ts) |-> tag_lines(ts[i])]), LAMBDA each :
           Ok(Join("\n", <<"## Tags (" \o ToString(count) \o " found)\n">>
                         \o Flatten(each))))))

\* The sort key of an unread-count record: x.get("count", 0), an int of at
\* most nine digits in the model's payloads.
count_key(x) == Get(x, "count", JInt(0)).n

\* A faulty sort: x goes before the records whose key equals its own, so
\* that records of equal count come out in reverse.
RECURSIVE InsertDesc_before_equal(_, _)
InsertDesc_before_equal(sorted, x) ==
    IF Len(sorted) = 0 THEN <<x>>
    ELSE IF count_key(Head(sorted)) > count_key(x)
         THEN <<Head(sorted)>> \o InsertDesc_before_equal(Tail(sorted), x)
    ELSE <<x>> \o sorted

\* sorted(counts, key=..., reverse=True): descending, records of equal key
\* staying in their original order.  x goes after every record whose key is
\* at least its own.
RECURSIVE InsertDesc(_, _)
InsertDesc(sorted, x) ==
    IF Len(sorted) = 0 THEN <<x>>
    ELSE IF count_key(Head(sorted)) >= count_key(x)
         THEN <<Head(sorted)>> \o InsertDesc(Tail(sorted), x)
    ELSE <<x>> \o sorted

RECURSIVE SortedDesc(_, _)
SortedDesc(counts, k) ==
    IF k = 0 THEN <<>> ELSE InsertDesc(SortedDesc(counts, k - 1), counts[k])

\* The readable name and the kind of a stream ID.
stream_label(stream_id) ==
    IF Contains(stream_id, "/category/")
    THEN [name |-> LastPart(stream_id, "/category/"), stream_type |-> "Category"]
    ELSE IF Contains(stream_id, "/tag/")
    THEN [name |-> LastPart(stream_id, "/tag/"), stream_type |-> "Tag"]
    ELSE IF StartsWith(stream_id, "feed/")
    THEN [name |-> Suffix(stream_id, 5), stream_type |-> "Feed"]
    ELSE [name |-> stream_id, stream_type |-> "Stream"]

\* The lines one unread-count record adds; its ID is a str.
unread_count_lines(item) ==
    With(Get(item, "id", JStr("")).s, LAMBDA stream_id :
    With(stream_label(stream_id), LAMBDA label :
    Then(format_timestamp(Get(item, "updated", JNull)), LAMBDA updated :
      Ok(<<"- **" \o label.name \o "** (" \o label.stream_type \o "): "
           \o PyStr(Get(item, "count", JInt(0)))
           \o " unread (updated: " \o updated \o ")",
           "  - ID: " \o Backtick \o stream_id \o Backtick>>))))

format_unread_counts_markdown(data) ==
    IF data.t # "dict" THEN Raise(AttributeError(data, "get"))
    ELSE IF ~Truthy(Get(data, "unreadcounts", JList(<<>>)))
    THEN Ok("No unread counts available.")
    ELSE Then(Iterate(Get(data, "unreadcounts", JList(<<>>))), LAMBDA counts :
           IF \E i \in 1..Len(counts) : counts[i].t # "dict"
           THEN Raise(AttributeError(
                        counts[Min({i \in 1..Len(counts) : counts[i].t # "dict"})],
                        "get"))
           ELSE With(SortedDesc(counts, Len(counts)), LAMBDA sorted_counts :
                Then(Gather([i \in 1..Len(sorted_counts) |->
                               unread_count_lines(sorted_counts[i])]), LAMBDA each :
                  Ok(Join("\n", <<"## Unread Counts\n">> \o Flatten(each))))))

(***************************************************************************)
(* server.py: the twelve tools.  A handler runs in two stretches: up to    *)
(* the await of its one client call (get_client, then the request), and    *)
(* from the answer to its return.  tool_request gives the request the      *)
(* first stretch sends; each feedly_... operator gives the string the      *)
(* second stretch returns for the validated input p and the result recv of *)
(* the client call, the handler's try/except included.                     *)
(***************************************************************************)
Tools ==
    {"feedly_get_profile", "feedly_get_subscriptions", "feedly_get_categories",
     "feedly_get_tags", "feedly_get_unread_counts", "feedly_get_stream_contents",
     "feedly_get_entry", "feedly_get_entries", "feedly_mark_as_read",
     "feedly_mark_feed_as_read", "feedly_mark_category_as_read", "feedly_keep_unread"}

\* The schema FastMCP validates the raw arguments against before it calls
\* the handler (the handler's params annotation).
input_model(tool, a) ==
    CASE tool \in {"feedly_get_profile", "feedly_get_subscriptions",
                   "feedly_get_categories", "feedly_get_tags",
                   "feedly_get_unread_counts"}  -> SimpleResponseFormatInput(a)
      [] tool = "feedly_get_stream_contents"   -> GetStreamContentsInput(a)
      [] tool = "feedly_get_entry"             -> GetEntryInput(a)
      [] tool = "feedly_get_entries"           -> GetEntriesInput(a)
      [] tool = "feedly_mark_as_read"          -> MarkAsReadInput(a)
      [] tool = "feedly_mark_feed_as_read"     -> MarkFeedAsReadInput(a)
      [] tool = "feedly_mark_category_as_read" -> MarkCategoryAsReadInput(a)
      [] tool = "feedly_keep_unread"           -> KeepUnreadInput(a)

\* The client call each handler makes.
tool_request(tool, p, c) ==
    CASE tool = "feedly_get_profile"           -> get_profile(c)
      [] tool = "feedly_get_subscriptions"     -> get_subscriptions(c)
      [] tool = "feedly_get_categories"        -> get_categories(c)
      [] tool = "feedly_get_tags"              -> get_tags(c)
      [] tool = "feedly_get_unread_counts"     -> get_unread_counts(c)
      [] tool = "feedly_get_stream_contents"   ->
           get_stream_contents(c, p.stream_id, p.count, p.unread_only,
                               p.continuation, p.ranked)
      [] tool = "feedly_get_entry"             -> get_entry(c, p.entry_id)
      [] tool = "feedly_get_entries"           -> get_entries(c, p.entry_ids)
      [] tool = "feedly_mark_as_read"          -> mark_as_read(c, p.entry_ids)
      [] tool = "feedly_mark_feed_as_read"     -> mark_feed_as_read(c, p.feed_id, p.as_of)
      [] tool = "feedly_mark_category_as_read" ->
           mark_category_as_read(c, p.category_id, p.as_of)
      [] tool = "feedly_keep_unread"           -> keep_unread(c, p.entry_ids)

\* return _truncate_response(<formatted>) inside the try: the capped text,
\* or the error string when the formatter raised.
Rendered(r) == IF r.ok THEN truncate_response(r.v) ELSE handle_error(r.exc)

feedly_get_profile(p, recv) ==
    IF ~recv.ok THEN handle_error(recv.exc)
    ELSE IF p.response_format = "json" THEN truncate_response(json_dumps(recv.v))
    ELSE Rendered(format_profile_markdown(recv.v))

feedly_get_subscriptions(p, recv) ==
    IF ~recv.ok THEN handle_error(recv.exc)
    ELSE IF p.response_format = "json" THEN truncate_response(json_dumps(recv.v))
    ELSE Rendered(format_subscriptions_markdown(recv.v))

feedly_get_categories(p, recv) ==
    IF ~recv.ok THEN handle_error(recv.exc)
    ELSE IF p.response_format = "json" THEN truncate_response(json_dumps(recv.v))
    ELSE Rendered(format_categories_markdown(recv.v))

feedly_get_tags(p, recv) ==
    IF ~recv.ok THEN handle_error(recv.exc)
    ELSE IF p.response_format = "json" THEN truncate_response(json_dumps(recv.v))
    ELSE Rendered(format_tags_markdown(recv.v))

feedly_get_unread_counts(p, recv) ==
    IF ~recv.ok THEN handle_error(recv.exc)
    ELSE IF p.response_format = "json" THEN truncate_response(json_dumps(recv.v))
    ELSE Rendered(format_unread_counts_markdown(recv.v))

feedly_get_stream_contents(p, recv) ==
    IF ~recv.ok THEN handle_error(recv.exc)
    ELSE Rendered(format_stream_contents(recv.v, p.response_format))

feedly_get_entry(p, recv) ==
    IF ~recv.ok THEN handle_error(recv.exc)
    ELSE IF ~Truthy(recv.v) THEN "Error: Article not found."
    ELSE With(IF recv.v.t = "list" THEN recv.v.xs[1] ELSE recv.v, LAMBDA entry :
           IF p.response_format = "json" THEN truncate_response(json_dumps(entry))
           ELSE Rendered(format_entry_markdown(entry, TRUE)))

feedly_get_entries(p, recv) ==
    IF ~recv.ok THEN handle_error(recv.exc)
    ELSE IF p.response_format = "json" THEN truncate_response(json_dumps(recv.v))
    ELSE Rendered(format_entries_markdown(recv.v, TRUE))

\* A faulty feedly_mark_as_read: it returns the upstream's answer.
feedly_mark_as_read_echo(p, recv) ==
    IF ~recv.ok THEN handle_error(recv.exc)
    ELSE json_dumps(recv.v)

feedly_mark_as_read(p, recv) ==
    IF ~recv.ok THEN handle_error(recv.exc)
    ELSE "Successfully marked " \o ToString(Len(p.entry_ids)) \o " article(s) as read."

\* The as-of clause of a bulk confirmation: added when params.as_of is truthy.
as_of_clause(as_of) ==
    IF as_of # None /\ Truthy(as_of[1])
    THEN Then(format_timestamp(as_of[1]), LAMBDA when :
           Ok(" (entries before " \o when \o ")"))
    ELSE Ok("")

feedly_mark_feed_as_read(p, recv) ==
    IF ~recv.ok THEN handle_error(recv.exc)
    ELSE With(as_of_clause(p.as_of), LAMBDA clause :
           IF ~clause.ok THEN handle_error(clause.exc)
           ELSE "Successfully marked feed as read: " \o p.feed_id \o clause.v)

feedly_mark_category_as_read(p, recv) ==
    IF ~recv.ok THEN handle_error(recv.exc)
    ELSE With(as_of_clause(p.as_of), LAMBDA clause :
           IF ~clause.ok THEN handle_error(clause.exc)
           ELSE "Successfully marked category as read: " \o p.category_id \o clause.v)

feedly_keep_unread(p, recv) ==
    IF ~recv.ok THEN handle_error(recv.exc)
    ELSE "Successfully kept " \o ToString(Len(p.entry_ids)) \o " article(s) as unread."

\* The string the handler of the tool returns once its client call ended in recv.
tool_return(tool, p, recv) ==
    CASE tool = "feedly_get_profile"           -> feedly_get_profile(p, recv)
      [] tool = "feedly_get_subscriptions"     -> feedly_get_subscriptions(p, recv)
      [] tool = "feedly_get_categories"        -> feedly_get_categories(p, recv)
      [] tool = "feedly_get_tags"              -> feedly_get_tags(p, recv)
      [] tool = "feedly_get_unread_counts"     -> feedly_get_unread_counts(p, recv)
      [] tool = "feedly_get_stream_contents"   -> feedly_get_stream_contents(p, recv)
      [] tool = "feedly_get_entry"             -> feedly_get_entry(p, recv)
      [] tool = "feedly_get_entries"           -> feedly_get_entries(p, recv)
      [] tool = "feedly_mark_as_read"          -> feedly_mark_as_read(p, recv)
      [] tool = "feedly_mark_feed_as_read"     -> feedly_mark_feed_as_read(p, recv)
      [] tool = "feedly_mark_category_as_read" -> feedly_mark_category_as_read(p, recv)
      [] tool = "feedly_keep_unread"           -> feedly_keep_unread(p, recv)

(***************************************************************************)
(* The invocations the hosting runtime makes: the tool named and the raw   *)
(* arguments given, valid ones and ones that break one rule of the schema. *)
(***************************************************************************)
Invocations == 1 .. MaxInvocations

NoArgs == [f \in {} |-> ""]

Invocation(tool, a) == [tool |-> tool, args |-> a]

EntryIds(n) == [k \in 1 .. n |-> "entry/" \o ToString(k)]

BatchLengths == {0, 1, 2, 1000, 1001}

Counts == {-1, 0, 1, 100, 101}

FeedId == "feed/http://a.example/rss"

CategoryId == "user/u1/category/tech"

\* An identifier longer than the response budget.
LongId == "feed/http://a.example/" \o Rep("x", CHARACTER_LIMIT)

\* Epoch milliseconds: none that is falsy, one in range, one past time_t.
AsOfValues == {JInt(0), JBig(FALSE, "1704067200000"),
               JBig(FALSE, "10000000000000000000000")}

SimpleArgs ==
    {NoArgs, [response_format |-> "markdown"], [response_format |-> "json"],
     [response_format |-> "xml"], [response_format |-> "json", verbose |-> TRUE]}

StreamArgs ==
    LET base == [stream_id |-> FeedId]
    IN  {base, NoArgs, [stream_id |-> ""], [stream_id |-> "   "],
         [stream_id |-> FeedId, continuation |-> "page2"],
         [stream_id |-> FeedId, unread_only |-> FALSE],
         [stream_id |-> FeedId, max_age |-> 7],
         [stream_id |-> FeedId, count |-> 1, response_format |-> "json"]}
        \cup {[stream_id |-> FeedId, count |-> n] : n \in Counts}
        \cup {[stream_id |-> FeedId, ranked |-> r] : r \in {"oldest", "random"}}
        \cup {[stream_id |-> FeedId, response_format |-> f] : f \in {"json", "xml"}}

EntryArgs ==
    {NoArgs, [entry_id |-> "entry/1"], [entry_id |-> ""],
     [entry_id |-> "entry/1", verbose |-> TRUE]}
    \cup {[entry_id |-> "entry/1", response_format |-> f] : f \in {"json", "xml"}}

EntriesArgs ==
    {NoArgs, [entry_ids |-> EntryIds(2), verbose |-> TRUE]}
    \cup {[entry_ids |-> EntryIds(n)] : n \in BatchLengths}
    \cup {[entry_ids |-> EntryIds(2), response_format |-> f] : f \in {"json", "xml"}}

BatchArgs ==
    {NoArgs, [entry_ids |-> EntryIds(2), verbose |-> TRUE]}
    \cup {[entry_ids |-> EntryIds(n)] : n \in BatchLengths}

FeedArgs ==
    {NoArgs, [feed_id |-> FeedId], [feed_id |-> ""], [feed_id |-> LongId],
     [feed_id |-> FeedId, verbose |-> TRUE]}
    \cup {[feed_id |-> FeedId, as_of |-> t] : t \in AsOfValues}

CategoryArgs ==
    {NoArgs, [category_id |-> CategoryId], [category_id |-> ""],
     [category_id |-> CategoryId, verbose |-> TRUE]}
    \cup {[category_id |-> CategoryId, as_of |-> t] : t \in AsOfValues}

ArgsOf(tool) ==
    CASE tool = "feedly_get_stream_contents"   -> StreamArgs
      [] tool = "feedly_get_entry"             -> EntryArgs
      [] tool = "feedly_get_entries"           -> EntriesArgs
      [] tool \in {"feedly_mark_as_read", "feedly_keep_unread"} -> BatchArgs
      [] tool = "feedly_mark_feed_as_read"     -> FeedArgs
      [] tool = "feedly_mark_category_as_read" -> CategoryArgs
      [] OTHER                                 -> SimpleArgs

(***************************************************************************)
(* What the upstream answers: failures of every kind the client tells      *)
(* apart, empty and malformed successes, and for each tool documents of    *)
(* the shape its endpoint returns, small ones and ones over the budget.    *)
(***************************************************************************)
\* A text that marks the upstream body wherever it is copied to.
BodyMarker == "upstream-body-7f3a"

LongText == Rep("lorem ", 5000)

Failures ==
    {TimedOut, ConnectFailed,
     HttpResponse(401, "{\"errorCode\": 401, \"errorMessage\": \"token expired\"}"),
     HttpResponse(403, BodyMarker),
     HttpResponse(404, BodyMarker),
     HttpResponse(429, BodyMarker),
     HttpResponse(302, ""),
     HttpResponse(500, "upstream failure\ntry again later"),
     HttpResponse(503, LongText)}

EntryDoc(k, title, extra) ==
    JDict(<<<<"id", JStr("entry/" \o ToString(k))>>,
            <<"title", JStr(title)>>,
            <<"published", JBig(FALSE, "1704067200000")>>,
            <<"origin", JDict(<<<<"title", JStr("A Blog")>>>>)>>,
            <<"alternate",
              JList(<<JDict(<<<<"href", JStr("http://a.example/" \o ToString(k))>>>>)>>)>>,
            <<"summary", JDict(<<<<"content", JStr("summary text")>>>>)>>>> \o extra)

Body(doc) == HttpResponse(200, json_dumps(doc))

ProfileAnswers ==
    {HttpResponse(200, "{\"id\":\"u1\",\"fullName\":\"Ann\",\"email\":\"ann@a.example\"}"),
     HttpResponse(200, "{}"),
     Body(JDict(<<<<"id", JStr("u1")>>, <<"fullName", JStr(LongText)>>>>))}

SubscriptionAnswers ==
    {HttpResponse(200, "[]"),
     HttpResponse(200, "[{\"id\":\"feed/http://a.example/rss\",\"title\":\"A Blog\","
                       \o "\"website\":\"http://a.example\",\"categories\":"
                       \o "[{\"id\":\"user/u1/category/tech\",\"label\":\"tech\"}]}]"),
     Body(JList(<<JDict(<<<<"id", JStr(FeedId)>>, <<"title", JStr(LongText)>>>>)>>))}

CategoryAnswers ==
    {HttpResponse(200, "[]"),
     HttpResponse(200, "[{\"id\":\"user/u1/category/tech\",\"label\":\"tech\"}]"),
     Body(JList(<<JDict(<<<<"id", JStr(CategoryId)>>, <<"label", JStr(LongText)>>>>)>>))}

TagAnswers ==
    {HttpResponse(200, "[]"),
     HttpResponse(200, "[{\"id\":\"user/u1/tag/later\",\"label\":\"later\"}]"),
     Body(JList(<<JDict(<<<<"id", JStr("user/u1/tag/" \o LongText)>>>>)>>))}

UnreadCountAnswers ==
    {HttpResponse(200, "{}"),
     HttpResponse(200, "{\"unreadcounts\":[{\"id\":\"feed/http://a.example/rss\","
                       \o "\"count\":3,\"updated\":1704067200000},"
                       \o "{\"id\":\"user/u1/category/tech\",\"count\":7}]}"),
     Body(JDict(<<<<"unreadcounts",
                    JList(<<JDict(<<<<"id", JStr("feed/" \o LongText)>>,
                                    <<"count", JInt(1)>>>>)>>)>>>>))}

StreamAnswers ==
    {HttpResponse(200, "{\"items\": []}"),
     HttpResponse(200, "{\"items\": 5}"),
     HttpResponse(200, "[]"),
     Body(JDict(<<<<"id", JStr(FeedId)>>,
                  <<"items", JList(<<EntryDoc(1, "First", <<>>),
                                     EntryDoc(2, "Second", <<>>)>>)>>,
                  <<"continuation", JStr("page2")>>>>)),
     Body(JDict(<<<<"items", JList(<<EntryDoc(1, LongText, <<>>)>>)>>>>))}

EntryAnswers ==
    {HttpResponse(200, "[]"),
     Body(JList(<<EntryDoc(1, "First", <<>>)>>)),
     Body(JList(<<EntryDoc(1, "First", <<<<"fullContent", JStr("")>>>>)>>)),
     Body(JList(<<EntryDoc(1, LongText, <<>>)>>))}

EntriesAnswers ==
    {HttpResponse(200, "[]"),
     HttpResponse(200, "[7]"),
     Body(JList(<<EntryDoc(1, "First", <<>>), EntryDoc(2, "Second", <<>>)>>)),
     Body(JList(<<EntryDoc(1, LongText, <<>>)>>))}

WriteAnswers ==
    {HttpResponse(200, "{\"marker\": \"" \o BodyMarker \o "\"}"),
     HttpResponse(200, "\"" \o BodyMarker \o "\"")}

AnswersTo(tool) ==
    Failures
    \cup {HttpResponse(204, ""), HttpResponse(200, ""), HttpResponse(200, "<html>")}
    \cup (CASE tool = "feedly_get_profile"         -> ProfileAnswers
            [] tool = "feedly_get_subscriptions"   -> SubscriptionAnswers
            [] tool = "feedly_get_categories"      -> CategoryAnswers
            [] tool = "feedly_get_tags"            -> TagAnswers
            [] tool = "feedly_get_unread_counts"   -> UnreadCountAnswers
            [] tool = "feedly_get_stream_contents" -> StreamAnswers
            [] tool = "feedly_get_entry"           -> EntryAnswers
            [] tool = "feedly_get_entries"         -> EntriesAnswers
            [] OTHER                               -> WriteAnswers)

(***************************************************************************)
(* The handlers as steps.  The hosting runtime validates the raw arguments *)
(* against the handler's schema and only then calls the handler; the       *)
(* handler runs up to the await of its one client call, and resumes when   *)
(* the session it opened holds the answer.                                 *)
(***************************************************************************)
NoException == Exception("", "")

Pending == [kind |-> "pending", text |-> "", exc |-> NoException]

\* The handler returned the string s.
Returned(s) == [kind |-> "returned", text |-> s, exc |-> NoException]

\* The call of the tool raised e.
Raised(e) == [kind |-> "raised", text |-> "", exc |-> e]

\* A faulty _request: one module-level session serves every call.
session_shared(i) == 1

\* async with httpx.AsyncClient(...) as client: every _request opens a
\* session of its own.
session_of(i) == i

\* A faulty handler: feedly_get_entries fetches the entries one by one.
requests_per_entry(tool, p, c) ==
    IF tool = "feedly_get_entries"
    THEN [k \in 1..Len(p.entry_ids) |-> get_entry(c, p.entry_ids[k])]
    ELSE <<tool_request(tool, p, c)>>

\* The client calls a handler makes: exactly one.
requests_of(tool, p, c) == <<tool_request(tool, p, c)>>

Tokens == {None, Some(""), Some("token-1")}

TimeZones == {0, 60}

NothingInvoked ==
    /\ pc = [i \in Invocations |-> "idle"]
    /\ call = [i \in Invocations |-> Invocation("", NoArgs)]
    /\ validated = [i \in Invocations |-> NoArgs]
    /\ clients = [i \in Invocations |-> None]
    /\ sent = [i \in Invocations |-> <<>>]
    /\ reply = [i \in Invocations |-> None]
    /\ session = [i \in Invocations |-> None]
    /\ received = [i \in Invocations |-> None]
    /\ outcome = [i \in Invocations |-> Pending]

NothingApplied ==
    /\ fn = ""
    /\ arg = JNull
    /\ ret = None

\* The arguments break the schema: the validation error is raised where the
\* runtime builds params, and the handler is never entered.
Reject(i, tool, a) ==
    /\ pc[i] = "idle"
    /\ ~input_model(tool, a).ok
    /\ call' = [call EXCEPT ![i] = Invocation(tool, a)]
    /\ outcome' = [outcome EXCEPT ![i] = Raised(input_model(tool, a).exc)]
    /\ pc' = [pc EXCEPT ![i] = "done"]
    /\ UNCHANGED <<env_token, tz_offset, validated, clients, sent, reply, session,
                   received, fn, arg, ret>>

\* The handler is entered and get_client() raises: the except clause
\* returns the error string.
Refuse(i, tool, a) ==
    /\ pc[i] = "idle"
    /\ input_model(tool, a).ok
    /\ ~get_client(env_token).ok
    /\ call' = [call EXCEPT ![i] = Invocation(tool, a)]
    /\ validated' = [validated EXCEPT ![i] = input_model(tool, a).v]
    /\ outcome' = [outcome EXCEPT
                     ![i] = Returned(handle_error(get_client(env_token).exc))]
    /\ pc' = [pc EXCEPT ![i] = "done"]
    /\ UNCHANGED <<env_token, tz_offset, clients, sent, reply, session, received,
                   fn, arg, ret>>

\* The handler is entered, builds its client, sends its request and awaits.
Request(i, tool, a) ==
    /\ pc[i] = "idle"
    /\ input_model(tool, a).ok
    /\ get_client(env_token).ok
    /\ call' = [call EXCEPT ![i] = Invocation(tool, a)]
    /\ validated' = [validated EXCEPT ![i] = input_model(tool, a).v]
    /\ clients' = [clients EXCEPT ![i] = Some(get_client(env_token).v)]
    /\ sent' = [sent EXCEPT
                  ![i] = @ \o requests_of(tool, input_model(tool, a).v,
                                          get_client(env_token).v)]
    /\ pc' = [pc EXCEPT ![i] = "awaiting"]
    /\ UNCHANGED <<env_token, tz_offset, reply, session, received, outcome,
                   fn, arg, ret>>

\* The upstream answers the request of invocation i (or fails to): the
\* session the request went out on now holds the answer.
Answer(i, resp) ==
    /\ pc[i] = "awaiting"
    /\ reply' = [reply EXCEPT ![i] = Some(resp)]
    /\ session' = [session EXCEPT ![session_of(i)] = Some(resp)]
    /\ pc' = [pc EXCEPT ![i] = "received"]
    /\ UNCHANGED <<env_token, tz_offset, call, validated, clients, sent, received,
                   outcome, fn, arg, ret>>

\* The handler resumes: _request maps the answer its session holds to a
\* payload or an exception, and the handler formats and returns.
Return(i) ==
    /\ pc[i] = "received"
    /\ LET recv == request_receive(session[session_of(i)][1])
       IN  /\ received' = [received EXCEPT ![i] = Some(recv)]
           /\ outcome' = [outcome EXCEPT
                            ![i] = Returned(tool_return(call[i].tool, validated[i],
                                                        recv))]
    /\ pc' = [pc EXCEPT ![i] = "done"]
    /\ UNCHANGED <<env_token, tz_offset, call, validated, clients, sent, reply,
                   session, fn, arg, ret>>

(***************************************************************************)
(* Concurrent invocations: the runtime starts up to MaxInvocations tool    *)
(* calls and the upstream answers them in any order.                       *)
(***************************************************************************)
ConcurrentCalls ==
    {Invocation("feedly_get_profile", NoArgs),
     Invocation("feedly_get_stream_contents",
                [stream_id |-> FeedId, response_format |-> "json"]),
     Invocation("feedly_get_entries", [entry_ids |-> EntryIds(2)]),
     Invocation("feedly_mark_as_read", [entry_ids |-> EntryIds(2)]),
     Invocation("feedly_mark_as_read", [entry_ids |-> EntryIds(0)])}

ConcurrentAnswers(tool) ==
    {TimedOut, HttpResponse(429, BodyMarker)}
    \cup (CASE tool = "feedly_get_profile" ->
                 {HttpResponse(200, "{\"id\":\"u1\",\"fullName\":\"Ann\"}")}
            [] tool = "feedly_get_stream_contents" ->
                 {Body(JDict(<<<<"items", JList(<<EntryDoc(1, "First", <<>>)>>)>>>>))}
            [] tool = "feedly_get_entries" ->
                 {Body(JList(<<EntryDoc(1, "First", <<>>), EntryDoc(2, "Second", <<>>)>>))}
            [] OTHER -> {HttpResponse(204, "")})

Init ==
    /\ env_token \in Tokens
    /\ tz_offset = 0
    /\ NothingInvoked
    /\ NothingApplied

Next ==
    \E i \in Invocations :
        \/ \E c \in ConcurrentCalls :
               \/ Reject(i, c.tool, c.args)
               \/ Refuse(i, c.tool, c.args)
               \/ Request(i, c.tool, c.args)
        \/ \E resp \in ConcurrentAnswers(call[i].tool) : Answer(i, resp)
        \/ Return(i)

Spec == Init /\ [][Next]_vars

(***************************************************************************)
(* One invocation on its own, over every tool, the whole range of          *)
(* arguments and the whole range of upstream answers.                      *)
(***************************************************************************)
InitSingle ==
    /\ env_token \in Tokens
    /\ tz_offset \in TimeZones
    /\ NothingInvoked
    /\ NothingApplied

NextSingle ==
    \/ \E tool \in Tools : \E a \in ArgsOf(tool) :
           \/ Reject(1, tool, a)
           \/ Refuse(1, tool, a)
           \/ Request(1, tool, a)
    \/ \E resp \in AnswersTo(call[1].tool) : Answer(1, resp)
    \/ Return(1)

SpecSingle == InitSingle /\ [][NextSingle]_vars

(***************************************************************************)
(* A formatting helper applied on its own, to an argument drawn from a     *)
(* bounded set of documents.                                               *)
(***************************************************************************)
\* Entries over the three content fields: each absent, present without
\* text, or present with text.
ArticleEntries ==
    {JDict(full \o content \o summary) :
       full \in {<<>>,
                 <<<<"fullContent", JStr("")>>>>,
                 <<<<"fullContent", JStr("full text")>>>>},
       content \in {<<>>,
                    <<<<"content", JDict(<<>>)>>>>,
                    <<<<"content", JDict(<<<<"content", JNull>>>>)>>>>,
                    <<<<"content", JDict(<<<<"content", JStr("")>>>>)>>>>,
                    <<<<"content", JDict(<<<<"content", JStr("body text")>>>>)>>>>},
       summary \in {<<>>,
                    <<<<"summary", JDict(<<>>)>>>>,
                    <<<<"summary", JDict(<<<<"content", JStr("")>>>>)>>>>,
                    <<<<"summary", JDict(<<<<"content", JStr("summary text")>>>>)>>>>}}

InitHelper ==
    /\ env_token = None
    /\ tz_offset = 0
    /\ NothingInvoked
    /\ fn = "_get_article_content"
    /\ arg \in ArticleEntries
    /\ ret = None

ApplyGetArticleContent ==
    /\ fn = "_get_article_content"
    /\ ret = None
    /\ ret' = Some(get_article_content(arg))
    /\ UNCHANGED <<env_token, tz_offset, pc, call, validated, clients, sent, reply,
                   session, received, outcome, fn, arg>>

NextHelper == ApplyGetArticleContent

SpecHelper == InitHelper /\ [][NextHelper]_vars

(***************************************************************************)
(* The rendering helpers of server.py, each applied once to an input drawn *)
(* from the values an upstream document can hold.                          *)
(***************************************************************************)
\* Texts of the lengths around the 300-character summary limit.
SummaryLengths == {0, 1, 299, 300, 301, 400}

\* Texts of the lengths around the 25,000-character budget.
ResponseLengths == {0, 1, 24950, 24999, 25000, 25001, 25046, 30000}

TimestampValues ==
    {JNull, JInt(0), JInt(-1), JInt(59999), JInt(86399999),
     JBig(FALSE, "1704067200000"), JBig(FALSE, "1704153599999"),
     JBig(TRUE, "1704067200000"),
     JBig(FALSE, "253402300800000"), JBig(FALSE, "1000000000000000"),
     JBig(FALSE, "10000000000000000000000"), JBig(TRUE, "10000000000000000000000"),
     JStr("2024-01-01"), JStr(""), JList(<<>>), JDict(<<>>)}

TruncateTextValues ==
    {JNull} \cup {JStr(Rep("a", n)) : n \in SummaryLengths}
            \cup {JStr(Rep("lorem ", 60)), JStr("summary text")}

TruncateResponseValues ==
    {JStr(Rep("x", n)) : n \in ResponseLengths}
    \cup {JStr(Rep("lorem ", 5000)), JStr("## Unread Counts\n")}

\* The alternate links, the canonical URL and the content fields an entry
\* may carry.
AlternateFields ==
    {<<>>,
     <<<<"alternate", JList(<<>>)>>>>,
     <<<<"alternate", JList(<<JDict(<<>>)>>)>>>>,
     <<<<"alternate", JList(<<JDict(<<<<"href", JStr("http://a.example/1")>>>>)>>)>>>>,
     <<<<"alternate", JList(<<JDict(<<<<"href", JStr("http://a.example/1")>>>>),
                              JDict(<<<<"href", JStr("http://a.example/2")>>>>)>>)>>>>}

CanonicalFields == {<<>>, <<<<"canonicalUrl", JStr("http://c.example/1")>>>>}

ContentFields ==
    {<<>>,
     <<<<"summary", JDict(<<<<"content", JStr("summary text")>>>>)>>>>,
     <<<<"summary", JDict(<<<<"content", JStr(Rep("s", 400))>>>>)>>>>,
     <<<<"content", JDict(<<<<"content", JStr(Rep("b", 400))>>>>)>>>>,
     <<<<"summary", JDict(<<<<"content", JStr("summary text")>>>>)>>,
       <<"fullContent", JStr("full text")>>>>,
     <<<<"summary", JDict(<<<<"content", JStr(Rep("s", 400))>>>>)>>,
       <<"fullContent", JStr(Rep("f", 400))>>>>}

EntryValues ==
    {[entry |-> JDict(<<<<"id", JStr("entry-1")>>, <<"title", JStr("Title")>>>>
                      \o alternate \o canonical \o content),
      include_content |-> inc] :
       alternate \in AlternateFields, canonical \in CanonicalFields,
       content \in ContentFields, inc \in BOOLEAN}

\* Unread-count records: the k-th of a listing has its own ID, and a count
\* that is absent or one of three values.
CountFields ==
    {<<>>, <<<<"count", JInt(0)>>>>, <<<<"count", JInt(3)>>>>, <<<<"count", JInt(10)>>>>}

CountRecord(k, count) ==
    JDict(<<<<"id", JStr("feed/http://a.example/" \o ToString(k))>>>> \o count)

MaxRecords == 3

CountListings ==
    UNION {{JList([k \in 1..n |-> CountRecord(k, counts[k])]) :
              counts \in [1..n -> CountFields]} : n \in 0..MaxRecords}

\* Stream IDs of every kind.
StreamIds ==
    {"feed/http://a.example/rss", "feed/http://a.example/category/news",
     "feed/http://a.example/tag/tla", "user/1/category/tech",
     "user/1/category/global.all", "user/1/tag/global.saved", "user/1/tag/later",
     "user/1/priority/high", "topic/ai", "feedback/1", ""}

KindListings ==
    {JList(<<JDict(<<<<"id", JStr(id)>>, <<"count", JInt(7)>>,
                     <<"updated", JBig(FALSE, "1704067200000")>>>>)>>) :
       id \in StreamIds}

UnreadCountValues ==
    {JDict(<<<<"unreadcounts", listing>>>>) : listing \in CountListings \cup KindListings}

RenderValues(f) ==
    CASE f = "_format_timestamp"              -> TimestampValues
      [] f = "_truncate_text"                 -> TruncateTextValues
      [] f = "_truncate_response"             -> TruncateResponseValues
      [] f = "_format_entry_markdown"         -> EntryValues
      [] f = "_format_unread_counts_markdown" -> UnreadCountValues

RenderFunctions ==
    {"_format_timestamp", "_truncate_text", "_truncate_response",
     "_format_entry_markdown", "_format_unread_counts_markdown"}

InitRender ==
    /\ env_token = None
    /\ tz_offset \in TimeZones
    /\ NothingInvoked
    /\ fn \in RenderFunctions
    /\ arg \in RenderValues(fn)
    /\ ret = None

\* The helper f is applied to arg and ends in r.
Apply(f, r) ==
    /\ fn = f
    /\ ret = None
    /\ ret' = Some(r)
    /\ UNCHANGED <<env_token, tz_offset, pc, call, validated, clients, sent, reply,
                   session, received, outcome, fn, arg>>

ApplyFormatTimestamp == Apply("_format_timestamp", format_timestamp(arg))

ApplyTruncateText == Apply("_truncate_text", Ok(truncate_text(arg, 300)))

ApplyTruncateResponse == Apply("_truncate_response", Ok(truncate_response(arg.s)))

ApplyFormatEntryMarkdown ==
    Apply("_format_entry_markdown", format_entry_markdown(arg.entry, arg.include_content))

ApplyFormatUnreadCounts ==
    Apply("_format_unread_counts_markdown", format_unread_counts_markdown(arg))

NextRender ==
    \/ ApplyFormatTimestamp
    \/ ApplyTruncateText
    \/ ApplyTruncateResponse
    \/ ApplyFormatEntryMarkdown
    \/ ApplyFormatUnreadCounts

SpecRender == InitRender /\ [][NextRender]_vars

(***************************************************************************)
(* Properties.                                                             *)
(***************************************************************************)
ConfigurationError == "Error: FEEDLY_ACCESS_TOKEN environment variable not set"

AuthenticationError == "Error: Authentication failed. Check FEEDLY_ACCESS_TOKEN."

RateLimitError == "Error: Rate limit exceeded. Wait before retrying."

\* The client call of invocation i ended, in a payload or in an exception.
Received(i) == received[i] # None

TransportFailed(i) == Received(i) /\ ~received[i][1].ok

TransportSucceeded(i) == Received(i) /\ received[i][1].ok

\* An answer no formatter of the stream tool can render: len(5) raises.
UnformattableAnswer == HttpResponse(200, "{\"items\": 5}")

\* Something failed in the chain of invocation i: no client was built (the
\* input was invalid or the credential missing), the client call raised, or
\* the formatter met a payload it cannot render.
ChainFailed(i) ==
    \/ clients[i] = None
    \/ TransportFailed(i)
    \/ call[i].tool = "feedly_get_stream_contents" /\ reply[i] = Some(UnformattableAnswer)

\* C1: whatever fails in an invocation of any tool (the validation of its
\* input, the missing credential, an upstream 401/403/404/429 or other
\* non-2xx status, a timeout, an exception while formatting), the invocation
\* returns a single-line string that begins with "Error: ", and no
\* exception leaves the call.
C1_EveryFailureIsOneErrorLine ==
    \A i \in Invocations :
        pc[i] = "done" =>
            /\ outcome[i].kind = "returned"
            /\ ChainFailed(i) =>
                   /\ StartsWith(outcome[i].text, "Error: ")
                   /\ SingleLine(outcome[i].text)

\* C2: for every valid input and every upstream answer, the string a tool
\* returns (a listing, a confirmation of a write, or an error) is at most
\* 25,000 characters long.
C2_EveryResultWithinBudget ==
    \A i \in Invocations :
        pc[i] = "done" /\ outcome[i].kind = "returned" =>
            Len(outcome[i].text) <= CHARACTER_LIMIT

\* What C3 says of the client call of invocation i, answered with status s
\* and body text: the outcome o of the call and the string the tool returns.
StatusOutcome(i, s, text, o) ==
    CASE s = 401 -> /\ ~o.ok /\ o.exc.cls = "FeedlyError" /\ o.exc.status = 401
                    /\ o.exc.msg = "Authentication failed. Check FEEDLY_ACCESS_TOKEN."
                    /\ pc[i] = "done" => outcome[i] = Returned(AuthenticationError)
      [] s = 403 -> ~o.ok /\ o.exc.cls = "FeedlyError" /\ o.exc.status = 403
      [] s = 404 -> ~o.ok /\ o.exc.cls = "FeedlyError" /\ o.exc.status = 404
      [] s = 429 -> /\ ~o.ok /\ o.exc.cls = "FeedlyError" /\ o.exc.status = 429
                    /\ o.exc.msg = "Rate limit exceeded. Wait before retrying."
                    /\ pc[i] = "done" => outcome[i] = Returned(RateLimitError)
      [] s \notin {401, 403, 404, 429} /\ (s < 200 \/ s > 299) ->
            /\ ~o.ok /\ o.exc.cls = "HTTPStatusError"
            /\ o.exc.status = s /\ o.exc.text = text
      [] s = 204 -> o = Ok(JNull)
      [] OTHER   -> json_loads(text).ok => o = Ok(json_loads(text).v)

C4_AtMostOneRequest ==
    /\ [](\A i \in Invocations :
            /\ Len(sent[i]) <= 1
            /\ pc[i] = "done" /\ TransportFailed(i) =>
                   /\ outcome[i].kind = "returned"
                   /\ StartsWith(outcome[i].text, "Error: "))
    /\ [][\A i \in Invocations :
            pc[i] \in {"received", "done"} => sent'[i] = sent[i]]_vars

\* An invocation answered with 429 is done with one request sent, while
\* another invocation timed out with one request sent.
C4_Witness ==
    \E i, j \in Invocations :
        /\ pc[i] = "done" /\ pc[j] = "done"
        /\ reply[i] = Some(HttpResponse(429, BodyMarker))
        /\ reply[j] = Some(TimedOut)
        /\ Len(sent[i]) = 1 /\ Len(sent[j]) = 1
        /\ outcome[i] = Returned(RateLimitError)
        /\ outcome[j] = Returned("Error: Request timed out. Try again.")

\* The field names the schemas know.
KnownFields ==
    {"stream_id", "count", "unread_only", "continuation", "ranked", "response_format",
     "entry_id", "entry_ids", "feed_id", "category_id", "as_of"}

\* The raw arguments a break one of the rules C5 lists.
BreaksARule(a) ==
    \/ "entry_ids" \in DOMAIN a /\ (Len(a.entry_ids) = 0 \/ Len(a.entry_ids) >= 1001)
    \/ "count" \in DOMAIN a /\ (a.count < 1 \/ a.count > 100)
    \/ \E f \in {"stream_id", "entry_id", "feed_id", "category_id"} :
           f \in DOMAIN a /\ a[f] = ""
    \/ ~(DOMAIN a \subseteq KnownFields)
    \/ "response_format" \in DOMAIN a /\ a.response_format \notin {"markdown", "json"}
    \/ "ranked" \in DOMAIN a /\ a.ranked \notin {"newest", "oldest"}

\* The raw arguments a carry an entry-ID list or a count, and break no rule.
ListOrCountInRange(a) ==
    /\ "entry_ids" \in DOMAIN a \/ "count" \in DOMAIN a
    /\ ~BreaksARule(a)

\* C5: an invocation whose input breaks a rule of its schema (an entry-ID
\* list of length 0 or of 1001 or more, a count outside 1..100, an empty
\* required string, an unknown field, a response_format other than
\* markdown/json, a ranked other than newest/oldest) ends in a validation
\* error and sends no request; an input with a list of 1..1000 IDs or a
\* count in 1..100 that breaks no rule is not rejected.
C5_InvalidInputIsRejectedUnsent ==
    \A i \in Invocations :
        pc[i] # "idle" =>
            /\ BreaksARule(call[i].args) =>
                   /\ pc[i] = "done"
                   /\ outcome[i].kind = "raised"
                   /\ outcome[i].exc.cls = "ValidationError"
                   /\ sent[i] = <<>>
            /\ ListOrCountInRange(call[i].args) =>
                   /\ outcome[i].kind # "raised"
                   /\ env_token = Some("token-1") => Len(sent[i]) = 1

\* A list of 1001 entry IDs was rejected with nothing sent, the token being set.
C5_Witness ==
    \E i \in Invocations :
        /\ env_token = Some("token-1")
        /\ call[i] = Invocation("feedly_mark_as_read", [entry_ids |-> EntryIds(1001)])
        /\ outcome[i].kind = "raised"
        /\ outcome[i].exc.cls = "ValidationError"
        /\ sent[i] = <<>>

\* The field each tool requires.
RequiredFields(tool) ==
    CASE tool = "feedly_get_stream_contents"   -> {"stream_id"}
      [] tool = "feedly_get_entry"             -> {"entry_id"}
      [] tool \in {"feedly_get_entries", "feedly_mark_as_read", "feedly_keep_unread"}
                                               -> {"entry_ids"}
      [] tool = "feedly_mark_feed_as_read"     -> {"feed_id"}
      [] tool = "feedly_mark_category_as_read" -> {"category_id"}
      [] OTHER                                 -> {}

\* The invocation c carries what its tool requires and breaks no rule, so
\* that its handler is entered.
WellFormed(c) ==
    /\ ~BreaksARule(c.args)
    /\ RequiredFields(c.tool) \subseteq DOMAIN c.args
    /\ "stream_id" \in DOMAIN c.args => c.args.stream_id # "   "

RunAlone(tool, a, tok, resp) ==
    IF ~input_model(tool, a).ok THEN Raised(input_model(tool, a).exc)
    ELSE IF ~get_client(tok).ok THEN Returned(handle_error(get_client(tok).exc))
    ELSE Returned(tool_return(tool, input_model(tool, a).v, request_receive(resp)))

\* C7: whatever the interleaving of the concurrent invocations, each one
\* ends as it would have ended alone with its input and its upstream answer.
C7_InterleavingChangesNothing ==
    \A i \in Invocations :
        pc[i] = "done" =>
            outcome[i] = RunAlone(call[i].tool, call[i].args, env_token,
                                  IF reply[i] = None THEN TimedOut ELSE reply[i][1])

\* Two invocations of one tool with one input were answered differently,
\* the second before the first, and ended differently.
C7_Witness ==
    /\ pc[1] = "done" /\ pc[2] = "done"
    /\ call[1] = call[2]
    /\ reply[1] = Some(HttpResponse(204, ""))
    /\ reply[2] = Some(HttpResponse(429, BodyMarker))
    /\ outcome[1] = Returned("Successfully marked 2 article(s) as read.")
    /\ outcome[2] = Returned(RateLimitError)

WriteTools ==
    {"feedly_mark_as_read", "feedly_mark_feed_as_read",
     "feedly_mark_category_as_read", "feedly_keep_unread"}

\* What a bulk confirmation ends with for the arguments a in the local zone
\* tz: nothing without a cutoff or with the cutoff 0, the local date and
\* time for the cutoff 2024-01-01T00:00Z.
CutoffClause(a, tz) ==
    IF "as_of" \notin DOMAIN a \/ a.as_of = JInt(0) THEN ""
    ELSE IF tz = 0 THEN " (entries before 2024-01-01 00:00)"
    ELSE " (entries before 2024-01-01 01:00)"

\* The cutoff of the arguments a lies beyond the platform's clock.
CutoffUnrepresentable(a) ==
    "as_of" \in DOMAIN a /\ a.as_of = JBig(FALSE, "10000000000000000000000")

ListingTools ==
    {"feedly_get_subscriptions", "feedly_get_categories", "feedly_get_tags",
     "feedly_get_unread_counts", "feedly_get_stream_contents", "feedly_get_entries"}

\* The text parses as JSON, and where the document has a count and items
\* the count is the number of the items (the tools that pass the upstream
\* array through return a document without either).
CountsItsItems(text) ==
    With(json_loads(text), LAMBDA parsed :
      /\ parsed.ok
      /\ parsed.v.t = "dict" =>
           /\ HasKey(parsed.v, "count") /\ HasKey(parsed.v, "items")
           /\ Item(parsed.v, "items").t = "list"
           /\ Item(parsed.v, "count") = JInt(Len(Item(parsed.v, "items").xs)))

\* C9: what a listing tool returns for response_format json, when it
\* returns a result and not an error, parses as JSON whose count is the
\* number of its items, for every upstream payload.
C9_JsonListingCountsItems ==
    \A i \in Invocations :
        /\ pc[i] = "done"
        /\ call[i].tool \in ListingTools
        /\ TransportSucceeded(i)
        /\ "response_format" \in DOMAIN validated[i]
        /\ validated[i].response_format = "json"
        /\ ~StartsWith(outcome[i].text, "Error: ")
        => /\ outcome[i].kind = "returned"
           /\ CountsItsItems(outcome[i].text)

\* The field of the entry holds text: for fullContent the string itself,
\* for content and summary the string under their "content" key.
FieldText(entry, field) ==
    IF ~HasKey(entry, field) THEN ""
    ELSE IF field = "fullContent" THEN
        IF Item(entry, field).t = "str" THEN Item(entry, field).s ELSE ""
    ELSE IF Item(entry, field).t = "dict"
            /\ HasKey(Item(entry, field), "content")
            /\ Item(Item(entry, field), "content").t = "str"
         THEN Item(Item(entry, field), "content").s
    ELSE ""

\* The first of the three fields, in the order of precedence, that has
\* text; the empty string when none has.
ClaimedContent(entry) ==
    IF FieldText(entry, "fullContent") # "" THEN FieldText(entry, "fullContent")
    ELSE IF FieldText(entry, "content") # "" THEN FieldText(entry, "content")
    ELSE FieldText(entry, "summary")

\* C10: the content of an entry is its full content, else its structured
\* content body, else its summary body, else the empty string, and a tier
\* that is present but empty does not hide a lower tier that has text.
C10_FirstTierWithTextIsRendered ==
    ret # None => ret[1] = Ok(JStr(ClaimedContent(arg)))

EndsWith(s, p) == Len(s) >= Len(p) /\ SubSeq(s, Len(s) - Len(p) + 1, Len(s)) = p

\* Text cut for the short form: unchanged up to 300 characters, its first
\* 297 characters and an ellipsis beyond.
ShortForm(text) ==
    IF Len(text) <= 300 THEN text ELSE SubSeq(text, 1, 297) \o "..."

\* The helper f was applied and returned.
Rendering(f) == fn = f /\ ret # None /\ ret[1].ok

\* C11: an entry with a summary body and full content renders, with
\* include_content, the full content under the Content heading and, without
\* it, the entry's summary cut to 300 characters under the Summary heading.
C11_SummaryAndFullContent ==
    /\ Rendering("_format_entry_markdown")
    /\ FieldText(arg.entry, "summary") # ""
    /\ FieldText(arg.entry, "fullContent") # ""
    => IF arg.include_content
       THEN EndsWith(ret[1].v, "\n\n**Content:**\n" \o FieldText(arg.entry, "fullContent"))
       ELSE EndsWith(ret[1].v,
                     "\n\n**Summary:** " \o ShortForm(FieldText(arg.entry, "summary")))

\* The places where the text holds the part.
Occurrences(text, part) ==
    {i \in 1..(Len(text) - Len(part) + 1) : SubSeq(text, i, i + Len(part) - 1) = part}

\* The ID line a listing gives the record.
IdLine(record) == "\n  - ID: " \o Backtick \o Item(record, "id").s \o Backtick

\* The count a record ranks by: its count, 0 without one.
RankOf(record) == IF HasKey(record, "count") THEN Item(record, "count").n ELSE 0

\* The records of the listing the unread-count helper was applied to.
ListedRecords == Item(arg, "unreadcounts").xs

\* C12: the unread-count listing shows every record once, no other record,
\* a record of higher count before a record of lower count (no count
\* ranking as 0), and records of equal count in their original order.
C12_UnreadCountsSortedStably ==
    Rendering("_format_unread_counts_markdown") /\ Len(ListedRecords) > 0 =>
        /\ \A k \in 1..Len(ListedRecords) :
               Cardinality(Occurrences(ret[1].v, IdLine(ListedRecords[k]))) = 1
        /\ Cardinality(Occurrences(ret[1].v, "\n  - ID: ")) = Len(ListedRecords)
        /\ \A a, b \in 1..Len(ListedRecords) :
               \/ RankOf(ListedRecords[a]) > RankOf(ListedRecords[b])
               \/ RankOf(ListedRecords[a]) = RankOf(ListedRecords[b]) /\ a < b
               => Min(Occurrences(ret[1].v, IdLine(ListedRecords[a])))
                    < Min(Occurrences(ret[1].v, IdLine(ListedRecords[b])))

\* Counts [3, 10, 3] were listed: the second record first, then the first,
\* then the third.
C12_Witness ==
    /\ Rendering("_format_unread_counts_markdown")
    /\ ListedRecords = <<CountRecord(1, <<<<"count", JInt(3)>>>>),
                         CountRecord(2, <<<<"count", JInt(10)>>>>),
                         CountRecord(3, <<<<"count", JInt(3)>>>>)>>
    /\ Min(Occurrences(ret[1].v, IdLine(ListedRecords[2])))
         < Min(Occurrences(ret[1].v, IdLine(ListedRecords[1])))
    /\ Min(Occurrences(ret[1].v, IdLine(ListedRecords[1])))
         < Min(Occurrences(ret[1].v, IdLine(ListedRecords[3])))

\* The timestamp is an integer of epoch milliseconds within the years the
\* calendar can show (at most fifteen digits, before the year 10000).
WellFormedTimestamp(v) ==
    /\ v.t \in {"int", "bigint"}
    /\ Len(Magnitude(v).digits) <= 15
    /\ ~Magnitude(v).neg => ~DecGeq(Pad(Magnitude(v).digits, 15), "253402300800000", 1)

\* C13: timestamp rendering never raises; an absent, malformed or
\* out-of-range timestamp renders as "Unknown", and 1704067200000 renders as
\* 2024-01-01 00:00 where local time is UTC.
C13_TimestampNeverRaises ==
    fn = "_format_timestamp" /\ ret # None =>
        /\ ret[1].ok
        /\ ~WellFormedTimestamp(arg) => ret[1].v = "Unknown"
        /\ arg = JBig(FALSE, "1704067200000") /\ tz_offset = 0
           => ret[1].v = "2024-01-01 00:00"

\* C14: the cap returns a text of at most 25,000 characters unchanged, and
\* of a longer one its first 24,950 characters followed by the notice: the
\* result ends with the notice, is 24,950 characters and the notice long,
\* and is no longer than 25,000 characters.
C14_CapKeepsOrCuts ==
    Rendering("_truncate_response") =>
        IF Len(arg.s) <= 25000 THEN ret[1].v = arg.s
        ELSE /\ ret[1].v = SubSeq(arg.s, 1, 24950)
                           \o "\n\n... [Response truncated at 25000 characters]"
             /\ EndsWith(ret[1].v, "\n\n... [Response truncated at 25000 characters]")
             /\ Len(ret[1].v)
                  = 24950 + Len("\n\n... [Response truncated at 25000 characters]")
             /\ Len(ret[1].v) <= 25000

\* A text of 25,001 characters was cut to 24,996 that end with the notice.
C14_Witness ==
    /\ Rendering("_truncate_response")
    /\ Len(arg.s) = 25001
    /\ Len(ret[1].v) = 24996
    /\ EndsWith(ret[1].v, "[Response truncated at 25000 characters]")

\* What follows "user/<id>/" in a stream ID, or the empty text for an ID of
\* another shape.
AfterUserId(id) ==
    IF ~StartsWith(id, "user/") THEN ""
    ELSE With({i \in 6..Len(id) : SubSeq(id, i, i) = "/"}, LAMBDA slashes :
           IF slashes = {} THEN "" ELSE SubSeq(id, Min(slashes) + 1, Len(id)))

\* The kind of a stream ID by its shape: feed/<url>,
\* user/<id>/category/<label>, user/<id>/tag/<label>, or any other.
KindOf(id) ==
    IF StartsWith(id, "feed/") THEN "Feed"
    ELSE IF StartsWith(AfterUserId(id), "category/") THEN "Category"
    ELSE IF StartsWith(AfterUserId(id), "tag/") THEN "Tag"
    ELSE "Stream"

\* C15: the unread-count listing labels a record by the kind of its stream
\* ID (Feed, Category, Tag, or Stream for any other) and shows the ID
\* unchanged on the ID line.
C15_StreamLabelledByKind ==
    Rendering("_format_unread_counts_markdown") /\ Len(ListedRecords) = 1 =>
        /\ Contains(ret[1].v,
                    "** (" \o KindOf(Item(ListedRecords[1], "id").s) \o "): ")
        /\ EndsWith(ret[1].v, IdLine(ListedRecords[1]))

\* The content selected for the entry the block was rendered for.
SelectedContent == get_article_content(arg.entry).v.s

\* C16: summary truncation returns a text of at most 300 characters
\* unchanged, cuts a longer one to its first 297 characters and "..."
\* (300 in all) and gives the empty string for an absent text; the Summary
\* line carries the content so cut, and the Content block carries the
\* selected content whole.
C16_OnlySummaryIsCut ==
    /\ Rendering("_truncate_text") =>
           IF arg.t = "null" THEN ret[1].v = ""
           ELSE IF Len(arg.s) <= 300 THEN ret[1].v = arg.s
           ELSE /\ ret[1].v = SubSeq(arg.s, 1, 297) \o "..."
                /\ Len(ret[1].v) = 300
    /\ Rendering("_format_entry_markdown") /\ SelectedContent # "" =>
           IF arg.include_content
           THEN /\ EndsWith(ret[1].v, "\n\n**Content:**\n" \o SelectedContent)
                /\ ~Contains(ret[1].v, "**Summary:**")
           ELSE /\ EndsWith(ret[1].v, "\n\n**Summary:** " \o ShortForm(SelectedContent))
                /\ ~Contains(ret[1].v, "**Content:**")

\* A content of 400 characters was rendered whole in the Content block.
C16_Witness ==
    /\ Rendering("_format_entry_markdown")
    /\ arg.include_content
    /\ Len(SelectedContent) = 400
    /\ EndsWith(ret[1].v, "\n\n**Content:**\n" \o SelectedContent)

\* The entry has an alternate link whose first element has an href.
HasAlternateHref(entry) ==
    /\ HasKey(entry, "alternate")
    /\ Len(Item(entry, "alternate").xs) > 0
    /\ HasKey(Item(entry, "alternate").xs[1], "href")

\* The URL an entry block is to show: the href of the first alternate link,
\* else the canonical URL, else none.
UrlToShow(entry) ==
    IF HasAlternateHref(entry) THEN Item(Item(entry, "alternate").xs[1], "href").s
    ELSE IF HasKey(entry, "canonicalUrl") THEN Item(entry, "canonicalUrl").s
    ELSE ""

\* C17: an entry block is rendered for every entry; its URL line shows the
\* href of the first alternate link, or else the canonical URL (also when
\* the alternate list is empty or its first element has no href), and is
\* left out when the entry has neither.
C17_AlternateThenCanonicalUrl ==
    fn = "_format_entry_markdown" /\ ret # None =>
        /\ ret[1].ok
        /\ IF UrlToShow(arg.entry) = "" THEN ~Contains(ret[1].v, "**URL:**")
           ELSE Contains(ret[1].v, "\n**URL:** [" \o UrlToShow(arg.entry) \o "]("
                                   \o UrlToShow(arg.entry) \o ")")

BulkTools == {"feedly_mark_feed_as_read", "feedly_mark_category_as_read"}

\* C18: a bulk tool's success confirmation mentions a cutoff ("entries
\* before ...") exactly when the request it sent carried one, for every
\* as_of including 0 and for as_of absent.
C18_CutoffMentionedIffSent ==
    \A i \in Invocations :
        /\ pc[i] = "done"
        /\ call[i].tool \in BulkTools
        /\ StartsWith(outcome[i].text, "Successfully marked ")
        => (Contains(outcome[i].text, " (entries before ")
              <=> HasKey(sent[i][1].json, "asOf"))

====
